---- MODULE Spec2Model ----
(***************************************************************************)
(* Background task execution and cancellation in the three PySide6         *)
(* applications of herramientas-ia-creativa:                                *)
(*   Video/main-gui.py    NovitaApiClient, VideoTaskWorker,                 *)
(*                        NovitaVideoGeneratorApp                           *)
(*   Audio/main-gui.py    ApiWorker, AudioGenerator, ElevenLabsTTS          *)
(*                                                                         *)
(* Four specifications share the variables below:                           *)
(*   SpecVideoWorker  one VideoTaskWorker driven by an arbitrary provider   *)
(*                    and an arbitrary caller of stop()                     *)
(*   SpecVideoApp     the Video controller, its GUI event loop and the      *)
(*                    polling threads it starts                             *)
(*   SpecAudioWorker  one ApiWorker or AudioGenerator driven by an          *)
(*                    arbitrary HTTP capability and caller of stop()        *)
(*   SpecAudioApp     the Audio controller (_start_worker and the thread    *)
(*                    and signal wiring it sets up)                         *)
(***************************************************************************)
EXTENDS Integers, Sequences, FiniteSets, TLC

\* ------------------------------------------------------------------ bounds
\* max_polls of VideoTaskWorker.run is 120 in the source; the loop is
\* modelled with a smaller number of attempts.
MaxPolls == 2
\* number of VideoTaskWorker instances one run of the Video app may create
MaxVWorkers == 2
\* depth of nested event loops (processEvents, modal dialogs) on a GUI thread
MaxDepth == 1

\* length of the GUI thread's queue of pending queued-signal deliveries
MaxQueue == 1

\* number of worker objects one run of the Audio app may have alive
MaxAWorkers == 2
\* largest Content-Length a streamed response declares
MaxDeclared == 2
\* largest number of bytes iter_content yields in one chunk
MaxChunkLen == 2
\* largest number of chunks a stream delivers
MaxChunks == 3
MaxStops == 2
\* largest stream index from which AudioGenerator's for loop is followed
\* (the estimator of line 132 wraps around at index 20)
MaxIndex == 21
\* non-empty chunks followed from that index
MaxBurst == 2
\* number of images one run of the Image app generates
MaxGenerations == 4

VIds == 1..MaxVWorkers
AIds == 1..MaxAWorkers
Urls == {"u1", "u2"}

\* ------------------------------------------------------------- variables
VARIABLES
  vw,        \* Video: VideoTaskWorker instances (fields of the object, position of run())
  vemit,     \* Video: per worker, the signals emitted so far, in order
  vq,        \* Video: queued signal deliveries pending on the GUI thread
  vstop,     \* Video: per worker, caller of stop(): "no", "waiting" (in self.wait()), "returned"
  vapp,      \* Video: fields of NovitaVideoGeneratorApp and widget enabled flags
  vstack,    \* Video: nested event loops open on the GUI thread (innermost last)
  vhist,     \* Video: observations used to state properties
  vcall      \* Video: a call of a NovitaApiClient method: arguments, HTTP outcome, result

varsVideo == <<vw, vemit, vq, vstop, vapp, vstack, vhist, vcall>>

VARIABLES
  aw,        \* Audio: ApiWorker / AudioGenerator instances (fields, position of run(),
             \*        the state of the download)
  aemit,     \* Audio: per worker, the signals emitted so far, in order
  ahist,     \* Audio: observations used to state properties
  aq,        \* Audio: queued slot invocations pending on the GUI thread
  athr,      \* Audio: the QThread created for each worker
  aapp,      \* Audio: fields of ElevenLabsTTS and widget enabled flags
  astack,    \* Audio: modal dialogs open on the GUI thread (innermost last)
  alast      \* Audio: what the last call of _start_worker saw and did

varsAudioApp == <<athr, aapp, astack, alast>>
varsAudio == <<aw, aemit, ahist, aq, varsAudioApp>>

VARIABLES
  ithr,      \* Imagenes: the ImageGeneratorThread (position of run())
  iemit,     \* Imagenes: the signals a thread without connections has emitted
  iq,        \* Imagenes: queued slot invocations pending on the GUI thread
  iapp       \* Imagenes: fields of MainWindow and what its slots have done

varsImage == <<ithr, iemit, iq, iapp>>

vars == <<varsVideo, varsAudio, varsImage>>

\* ------------------------------------------------- NovitaApiClient (Video)
\* What requests.get can deliver to get_task_result.
\*   kind   "exc"  : requests raises RequestException
\*          "resp" : a response with status code `code`
\*   body   "notjson" : response.json() raises
\*          "json"    : a JSON object; task/result are "absent", "null" or "obj"
TaskHttp ==
  { [kind |-> "exc", code |-> 0, body |-> "none", task |-> "absent",
     status |-> "absent", result |-> "absent", video_url |-> ""] }
  \cup
  { [kind |-> "resp", code |-> 500, body |-> "none", task |-> "absent",
     status |-> "absent", result |-> "absent", video_url |-> ""] }
  \cup
  { [kind |-> "resp", code |-> 200, body |-> "notjson", task |-> "absent",
     status |-> "absent", result |-> "absent", video_url |-> ""] }
  \cup
  { [kind |-> "resp", code |-> 200, body |-> "json", task |-> t,
     status |-> "absent", result |-> "absent", video_url |-> ""] : t \in {"absent", "null"} }
  \cup
  { [kind |-> "resp", code |-> 200, body |-> "json", task |-> "obj",
     status |-> s, result |-> r, video_url |-> ""] :
       s \in {"absent", "processing", "completed", "failed"}, r \in {"absent", "null"} }
  \cup
  { [kind |-> "resp", code |-> 200, body |-> "json", task |-> "obj",
     status |-> s, result |-> "obj", video_url |-> u] :
       s \in {"processing", "completed", "failed"}, u \in Urls \cup {""} }

\* get_task_result for a task reported 'completed' whose result is an object:
\* the triple is 'completed' only with a video_url
CompletedResult_mut(h) ==
  [status |-> "completed", url |-> h.video_url, msg |-> "ok"]

CompletedResult(h) ==
  IF h.video_url # ""
  THEN [status |-> "completed", url |-> h.video_url, msg |-> "ok"]
  ELSE [status |-> "failed", url |-> "", msg |-> "nourl"]

\* NovitaApiClient.get_task_result: the triple (status, result, message);
\* of result only its video_url is kept ("" when it has none or result is None).
get_task_result_mut(api_key, task_id, h) ==
  IF api_key = "" THEN [status |-> "failed", url |-> "", msg |-> "nokey"]
  ELSE IF task_id = "" THEN [status |-> "failed", url |-> "", msg |-> "noid"]
  ELSE IF h.kind = "exc" THEN [status |-> "failed", url |-> "", msg |-> "conn"]
  ELSE IF h.code # 200 THEN [status |-> "failed", url |-> "", msg |-> "http"]
  ELSE IF h.body = "notjson" THEN [status |-> "failed", url |-> "", msg |-> "unexpected"]
  ELSE IF h.task = "null" THEN [status |-> "failed", url |-> "", msg |-> "unexpected"]
  ELSE IF h.task = "absent" \/ h.status = "absent"
         THEN [status |-> "unknown", url |-> "", msg |-> "estado"]
  ELSE IF h.status = "completed" THEN
         IF h.result = "null" THEN [status |-> "failed", url |-> "", msg |-> "unexpected"]
         ELSE IF h.video_url # ""
                THEN [status |-> "completed", url |-> h.video_url, msg |-> "ok"]
                ELSE [status |-> "processing", url |-> "", msg |-> "estado"]
  ELSE IF h.status = "failed"
         THEN [status |-> "failed", url |-> "", msg |-> "provider"]
  ELSE [status |-> h.status, url |-> "", msg |-> "estado"]

get_task_result(api_key, task_id, h) ==
  IF api_key = "" THEN [status |-> "failed", url |-> "", msg |-> "nokey"]
  ELSE IF task_id = "" THEN [status |-> "failed", url |-> "", msg |-> "noid"]
  ELSE IF h.kind = "exc" THEN [status |-> "failed", url |-> "", msg |-> "conn"]
  ELSE IF h.code # 200 THEN [status |-> "failed", url |-> "", msg |-> "http"]
  ELSE IF h.body = "notjson" THEN [status |-> "failed", url |-> "", msg |-> "unexpected"]
  ELSE IF h.task = "null" THEN [status |-> "failed", url |-> "", msg |-> "unexpected"]
  ELSE IF h.task = "absent" \/ h.status = "absent"
         THEN [status |-> "unknown", url |-> "", msg |-> "estado"]
  ELSE IF h.status = "completed" THEN
         IF h.result = "null" THEN [status |-> "failed", url |-> "", msg |-> "unexpected"]
         ELSE CompletedResult(h)
  ELSE IF h.status = "failed"
         THEN [status |-> "failed", url |-> "", msg |-> "provider"]
  ELSE [status |-> h.status, url |-> "", msg |-> "estado"]

\* no call of a client method is being looked at
NoVCall ==
  [fn |-> "none", api_key |-> "", image_url |-> "", prompt |-> "",
   h |-> [kind |-> "exc", code |-> 0, body |-> "none", task_id |-> ""],
   returned |-> FALSE, ret |-> [task_id |-> "", msg |-> ""]]

\* ------------------------------------------------- VideoTaskWorker (Video)
\* pc of a worker: "none" (not constructed), "created", "started" (start()
\* called, run() not yet entered), "loop" (at the while test), "sleep" (inside
\* the loop body, in time.sleep), "query" (past time.sleep, before
\* get_task_result), "after" (past the loop, at the final if),
\* "done" (run() returned).
NoVWorker ==
  [pc |-> "none", api_key |-> "", task_id |-> "", is_running |-> FALSE,
   poll_count |-> 0, connected |-> FALSE]

\* VideoTaskWorker.__init__
NewVWorker(api_key, task_id, connected) ==
  [pc |-> "created", api_key |-> api_key, task_id |-> task_id, is_running |-> TRUE,
   poll_count |-> 0, connected |-> connected]

\* noUrlAt: the query that was answered with status 'completed' and no
\* video_url (0: none was); failedAt: the first query for which
\* get_task_result returned 'failed' (0: none).
\* status_handled, terminal_handled: the controller has run
\* update_status_output, on_task_completed / on_task_failed for the worker.
\* queriesAtStop: the number of queries made when stop() was first called
NoVHist ==
  [queries |-> 0, waits |-> 0, nonterminal |-> 0, stopped |-> FALSE,
   doneUrl |-> "", doneAt |-> 0, status_handled |-> FALSE,
   terminal_handled |-> FALSE, stops |-> 0, noUrlAt |-> 0, failedAt |-> 0,
   queriesAtStop |-> 0]

VSig(w, sig, arg) == [w |-> w, sig |-> sig, arg |-> arg]

\* Signal.emit of VideoTaskWorker signals.  With the controller's slots
\* connected (the receiver lives in the GUI thread) each emission is queued
\* for the GUI thread; the emissions of a worker without connections are
\* recorded in its log.
\* The slots of the controller only display the text carried by
\* task_status_updated and task_failed; a queued delivery keeps the argument
\* of task_completed (the video URL) and the kind of the other two.
VQueued_mut(sigs) ==
  [i \in DOMAIN sigs |->
     LET s == sigs[Len(sigs) + 1 - i] IN
     IF s.sig = "task_completed" THEN s ELSE [s EXCEPT !.arg = "text"]]

VQueued(sigs) ==
  [i \in DOMAIN sigs |->
     IF sigs[i].sig = "task_completed" THEN sigs[i] ELSE [sigs[i] EXCEPT !.arg = "text"]]

VEmitAll(w, sigs) ==
  /\ vw[w].connected => Len(vq) < MaxQueue
  /\ vemit' = IF vw[w].connected THEN vemit ELSE [vemit EXCEPT ![w] = @ \o sigs]
  /\ vq' = IF vw[w].connected THEN vq \o VQueued(sigs) ELSE vq

VTerminal(s) == s.sig \in {"task_completed", "task_failed"}

\* QThread.start(): the new thread enters run()
VRunBegin(w) ==
  /\ vw[w].pc = "started"
  /\ vw' = [vw EXCEPT ![w].pc = "loop"]
  /\ VEmitAll(w, <<VSig(w, "task_status_updated", "iniciando")>>)
  /\ UNCHANGED <<vstop, vapp, vstack, vhist>>
  /\ UNCHANGED vcall
  /\ UNCHANGED varsAudio
  /\ UNCHANGED varsImage

\* while self._is_running and poll_count < max_polls
VLoopTest_mut(w) ==
  /\ vw[w].pc = "loop"
  /\ vw' = [vw EXCEPT ![w].pc =
              IF vw[w].is_running /\ vw[w].poll_count <= MaxPolls
              THEN "sleep" ELSE "after"]
  /\ UNCHANGED <<vemit, vq, vstop, vapp, vstack, vhist>>
  /\ UNCHANGED vcall
  /\ UNCHANGED varsAudio
  /\ UNCHANGED varsImage

VLoopTest(w) ==
  /\ vw[w].pc = "loop"
  /\ vw' = [vw EXCEPT ![w].pc =
              IF vw[w].is_running /\ vw[w].poll_count < MaxPolls
              THEN "sleep" ELSE "after"]
  /\ UNCHANGED <<vemit, vq, vstop, vapp, vstack, vhist>>
  /\ UNCHANGED vcall
  /\ UNCHANGED varsAudio
  /\ UNCHANGED varsImage

\* the signals one loop iteration emits for the triple r of get_task_result
VIterationSignals_mut(w, r) ==
  LET upd == VSig(w, "task_status_updated", r.msg) IN
  IF r.status = "completed" THEN
    <<upd, IF r.url # "" THEN VSig(w, "task_completed", r.url)
                         ELSE VSig(w, "task_failed", "nourl2")>>
  ELSE IF r.status = "failed" THEN <<VSig(w, "task_failed", r.msg)>>
  ELSE <<upd>>

VIterationSignals(w, r) ==
  LET upd == VSig(w, "task_status_updated", r.msg) IN
  IF r.status = "completed" THEN
    <<upd, IF r.url # "" THEN VSig(w, "task_completed", r.url)
                         ELSE VSig(w, "task_failed", "nourl2")>>
  ELSE IF r.status = "failed" THEN <<upd, VSig(w, "task_failed", r.msg)>>
  ELSE <<upd>>

\* what one loop iteration adds to the observations of a worker without
\* connections: one query, its HTTP outcome h and returned triple r
VObserve(w, h, r) ==
  IF vw[w].connected THEN vhist
  ELSE [vhist EXCEPT
          ![w].queries = @ + 1,
          ![w].nonterminal =
             IF r.status \notin {"completed", "failed"} THEN @ + 1 ELSE @,
          ![w].doneUrl =
             IF @ = "" /\ h.status = "completed" /\ r.status = "completed"
             THEN h.video_url ELSE @,
          ![w].doneAt =
             IF @ = 0 /\ h.status = "completed" /\ r.status = "completed"
             THEN vhist[w].queries + 1 ELSE @,
          ![w].noUrlAt =
             IF @ = 0 /\ h.kind = "resp" /\ h.code = 200 /\ h.status = "completed"
                /\ h.video_url = ""
             THEN vhist[w].queries + 1 ELSE @,
          ![w].failedAt =
             IF @ = 0 /\ r.status = "failed" THEN vhist[w].queries + 1 ELSE @]

\* the statuses after which the loop body clears _is_running
VEndsLoop_mut == {"completed"}

VEndsLoop == {"completed", "failed"}

\* time.sleep(polling_interval) returns
VSleep(w) ==
  /\ vw[w].pc = "sleep"
  /\ vw' = [vw EXCEPT ![w].pc = "query"]
  /\ vhist' = IF vw[w].connected THEN vhist
              ELSE [vhist EXCEPT ![w].waits = @ + 1]
  /\ UNCHANGED <<vemit, vq, vstop, vapp, vstack>>
  /\ UNCHANGED vcall
  /\ UNCHANGED varsAudio
  /\ UNCHANGED varsImage

\* the rest of the loop body: poll_count += 1; get_task_result; the status
\* notification; the branch on status
VLoopBody_mut(w) ==
  /\ vw[w].pc = "query"
  /\ \E h \in TaskHttp :
       LET r == get_task_result(vw[w].api_key, vw[w].task_id, h) IN
       /\ vw' = [vw EXCEPT ![w].pc = "loop",
                           ![w].poll_count = @ + 1,
                           ![w].is_running =
                              IF r.status = "failed" THEN FALSE ELSE @]
       /\ VEmitAll(w, VIterationSignals(w, r))
       /\ vhist' = VObserve(w, h, r)
  /\ UNCHANGED <<vstop, vapp, vstack>>
  /\ UNCHANGED vcall
  /\ UNCHANGED varsAudio
  /\ UNCHANGED varsImage

VLoopBody(w) ==
  /\ vw[w].pc = "query"
  /\ \E h \in TaskHttp :
       LET r == get_task_result(vw[w].api_key, vw[w].task_id, h) IN
       /\ vw' = [vw EXCEPT ![w].pc = "loop",
                           ![w].poll_count = @ + 1,
                           ![w].is_running =
                              IF r.status \in VEndsLoop THEN FALSE ELSE @]
       /\ VEmitAll(w, VIterationSignals(w, r))
       /\ vhist' = VObserve(w, h, r)
  /\ UNCHANGED <<vstop, vapp, vstack>>
  /\ UNCHANGED vcall
  /\ UNCHANGED varsAudio
  /\ UNCHANGED varsImage

\* if self._is_running: self.task_failed.emit("Tiempo de espera agotado ...")
VAfterLoop(w) ==
  /\ vw[w].pc = "after"
  /\ vw' = [vw EXCEPT ![w].pc = "done"]
  /\ IF vw[w].is_running
     THEN VEmitAll(w, <<VSig(w, "task_failed", "timeout")>>)
     ELSE UNCHANGED <<vemit, vq>>
  /\ UNCHANGED <<vstop, vapp, vstack, vhist>>
  /\ UNCHANGED vcall
  /\ UNCHANGED varsAudio
  /\ UNCHANGED varsImage

VRunStep(w) ==
  \/ VRunBegin(w)
  \/ VLoopTest(w)
  \/ VSleep(w)
  \/ VLoopBody(w)
  \/ VAfterLoop(w)

\* VideoTaskWorker.stop: self._is_running = False, then self.wait()
VStop_mut(w) ==
  /\ vw[w].pc # "none"
  /\ vstop[w] # "waiting"
  /\ vhist[w].stops < MaxStops
  /\ vw' = vw
  /\ vstop' = [vstop EXCEPT ![w] = "waiting"]
  /\ vhist' = [vhist EXCEPT ![w].stopped = TRUE, ![w].stops = @ + 1,
                            ![w].queriesAtStop =
                               IF vhist[w].stopped THEN @ ELSE vhist[w].queries]
  /\ UNCHANGED <<vemit, vq, vapp, vstack>>
  /\ UNCHANGED vcall
  /\ UNCHANGED varsAudio
  /\ UNCHANGED varsImage

VStop(w) ==
  /\ vw[w].pc # "none"
  /\ vstop[w] # "waiting"
  /\ vhist[w].stops < MaxStops
  /\ vw' = [vw EXCEPT ![w].is_running = FALSE]
  /\ vstop' = [vstop EXCEPT ![w] = "waiting"]
  /\ vhist' = [vhist EXCEPT ![w].stopped = TRUE, ![w].stops = @ + 1,
                            ![w].queriesAtStop =
                               IF vhist[w].stopped THEN @ ELSE vhist[w].queries]
  /\ UNCHANGED <<vemit, vq, vapp, vstack>>
  /\ UNCHANGED vcall
  /\ UNCHANGED varsAudio
  /\ UNCHANGED varsImage

\* QThread.wait() returns once the thread is not running (never started, or run() returned)
VStopReturn(w) ==
  /\ vstop[w] = "waiting"
  /\ vw[w].pc \in {"created", "done"}
  /\ vstop' = [vstop EXCEPT ![w] = "returned"]
  /\ UNCHANGED <<vw, vemit, vq, vapp, vstack, vhist>>
  /\ UNCHANGED vcall
  /\ UNCHANGED varsAudio
  /\ UNCHANGED varsImage

\* QThread.start() called on the worker
VThreadStart(w) ==
  /\ vw[w].pc = "created"
  /\ vstop[w] # "waiting"
  /\ vw' = [vw EXCEPT ![w].pc = "started"]
  /\ UNCHANGED <<vemit, vq, vstop, vapp, vstack, vhist>>
  /\ UNCHANGED vcall
  /\ UNCHANGED varsAudio
  /\ UNCHANGED varsImage

\* gui_blocking: the last blocking call the GUI thread made itself, inside one
\* of its slots ("" when it has made none); no_task_id: the last submission
\* was answered with status 200 and a JSON body without task_id; closed: the
\* window has been closed and the application has left app.exec()
NoVApp ==
  [novita_client |-> FALSE, current_task_id |-> "", video_task_worker |-> 0,
   last_video_url |-> "", generate_button |-> FALSE, check_api_button |-> TRUE,
   save_video_button |-> FALSE, open_video_button |-> FALSE, inputs |-> TRUE,
   gui_blocking |-> "", no_task_id |-> FALSE, closed |-> FALSE]

\* ---------------------------------------- ApiWorker, AudioGenerator (Audio)
\* pc of a worker: "none" (not constructed), "created" (run() not yet
\* entered), "request" (inside requests.get / requests.post), "stream"
\* (AudioGenerator, inside the for loop, waiting for the next chunk), "done"
\* (run() returned).
\* expected is expected_size: -1 for None.  temp_file tells whether the file
\* named by temp_file exists.
NoAWorker ==
  [cls |-> "none", method |-> "", pc |-> "none", is_running |-> FALSE,
   expected |-> -1, i |-> 0, total_size |-> 0, temp_file |-> FALSE,
   connected |-> FALSE]

\* ApiWorker.__init__ (cls = "ApiWorker"), AudioGenerator.__init__ (cls = "AudioGenerator")
NewAWorker(cls, method, connected) ==
  [cls |-> cls, method |-> method, pc |-> "created", is_running |-> TRUE,
   expected |-> -1, i |-> 0, total_size |-> 0, temp_file |-> FALSE,
   connected |-> connected]

\* what has been observed of a worker: http counts the HTTP calls it made,
\* stoppedFirst tells that stop() was called before run() was entered,
\* stoppedEarly that stop() was called before the HTTP call returned,
\* status_code is response.status_code of an ApiWorker (0: no response),
\* progress_handled and terminal_handled tell that the controller has run
\* update_progress, on_audio_generated for the worker
NoAHist ==
  [http |-> 0, stoppedFirst |-> FALSE, stoppedEarly |-> FALSE, ended |-> FALSE,
   closeFailed |-> FALSE, status_code |-> 0, progress_handled |-> FALSE,
   terminal_handled |-> FALSE, stops |-> 0]

\* an emission of finished(data_or_path, success, error_message) or progress(value);
\* path tells whether a non-empty file path is carried, msg is the kind of message
AFinished(w, path, ok, msg) ==
  [w |-> w, sig |-> "finished", ok |-> ok, path |-> path, msg |-> msg, value |-> 0]
AProgress(w, value) ==
  [w |-> w, sig |-> "progress", ok |-> FALSE, path |-> FALSE, msg |-> "", value |-> value]

\* A QThread created by _start_worker: state "none" (no object), "running"
\* (isRunning() is True), "finished" (the thread has left its event loop and
\* emitted finished); quit tells whether quit() was called on it; slot names
\* the on_finished_slot connected to the worker's finished signal.  wired
\* tells whether the worker's finished and progress signals still have their
\* connections, fin_wired whether QThread.finished has, run_enabled whether
\* QThread.started will still call worker.run.
NoAThread ==
  [state |-> "none", quit |-> FALSE, slot |-> "none", wired |-> FALSE,
   fin_wired |-> FALSE, run_enabled |-> FALSE]

\* ElevenLabsTTS.__init__ and the enabled flags setup_ui gives the buttons.
\* worker and worker_thread are 0 for None; crashed tells that the process
\* has been aborted.  closing is the position of closeEvent: "no" (not
\* called), "stopped" (past worker.stop()), "waiting" (in wait(3000)),
\* "terminating" (in wait(1000)), "closed" (returned); shut lists the
\* operations closeEvent has performed on the worker and its thread.
\* current_audio_file tells that self.current_audio_file names a temp file
\* that exists; orphans that a temp file exists on disk which neither
\* self.current_audio_file nor a worker object names any more.
NoAApp ==
  [worker |-> 0, worker_thread |-> 0, api_key |-> FALSE,
   connect_button |-> TRUE, refresh_button |-> FALSE,
   refresh_models_button |-> FALSE, generate_button |-> FALSE,
   has_voices |-> FALSE, has_models |-> FALSE, crashed |-> FALSE,
   closing |-> "no", shut |-> <<>>,
   current_audio_file |-> FALSE, orphans |-> FALSE]

\* busy: a thread was running when _start_worker was called; ret: "True",
\* "False", or "abort" when the call did not return; started: the thread it
\* started (0 for none); kept: self.worker and self.worker_thread were left
\* as they were
NoALast == [busy |-> FALSE, ret |-> "True", started |-> 0, kept |-> TRUE]

\* the slot invocations one emission queues on the GUI thread, in the order
\* _start_worker connected the slots: on_finished_slot and thread.quit for
\* finished, update_progress for progress (worker.deleteLater runs in the
\* worker's own thread)
AEntry(slot, w, ok, path) == [slot |-> slot, w |-> w, ok |-> ok, path |-> path]

ASlots(s) ==
  IF s.sig = "finished"
  THEN << AEntry(athr[s.w].slot, s.w, s.ok, s.path), AEntry("quit", s.w, FALSE, FALSE) >>
  ELSE << AEntry("progress", s.w, FALSE, FALSE) >>

RECURSIVE AQueued(_)
AQueued(sigs) ==
  IF sigs = <<>> THEN <<>> ELSE ASlots(Head(sigs)) \o AQueued(Tail(sigs))

\* Signal.emit of the signals of a worker: queued to the GUI thread when
\* _start_worker connected the worker (nothing is delivered once closeEvent
\* has disconnected the signals or the GUI event loop has been told to quit),
\* recorded otherwise
AEmitAll(w, sigs) ==
  IF aw[w].connected
  THEN /\ IF athr[w].wired /\ aapp.closing # "closed"
          THEN /\ Len(aq) + Len(AQueued(sigs)) <= MaxQueue + 3
               /\ aq' = aq \o AQueued(sigs)
          ELSE UNCHANGED aq
       /\ UNCHANGED aemit
  ELSE /\ aemit' = [aemit EXCEPT ![w] = @ \o sigs]
       /\ UNCHANGED aq

\* observations are kept for workers that are not connected to a controller
AObserve(w, h) == IF aw[w].connected THEN ahist ELSE [ahist EXCEPT ![w] = h]

\* run() returns.  A worker connected by _start_worker is disposed of by
\* worker.deleteLater (connected to its own finished signal): none of its
\* fields is read again, only the temp file it may have left remains.
ADone(w, f) ==
  IF aw[w].connected
  THEN [aw EXCEPT ![w] = [NoAWorker EXCEPT !.cls = aw[w].cls, !.pc = "done",
                                           !.temp_file = f[w].temp_file,
                                           !.connected = TRUE]]
  ELSE f

\* What requests.get / requests.post can deliver to ApiWorker.run.
ApiHttp ==
  { [kind |-> k, code |-> 0, body |-> "none"] : k \in {"RequestException", "Exception"} }
  \cup
  { [kind |-> "resp", code |-> c, body |-> b] :
      c \in {200, 201, 404}, b \in {"json", "notjson", "empty"} }

\* ApiWorker.run, first statement: the cancellation check before the request
ApiRunBegin_mut(w) ==
  /\ aw[w].cls = "ApiWorker" /\ aw[w].pc = "created"
  /\ aw' = [aw EXCEPT ![w].pc = "request"]
  /\ ahist' = AObserve(w, [ahist[w] EXCEPT !.http = @ + 1])
  /\ UNCHANGED <<aemit, aq>>
  /\ UNCHANGED varsAudioApp
  /\ UNCHANGED varsVideo
  /\ UNCHANGED varsImage

ApiRunBegin(w) ==
  /\ aw[w].cls = "ApiWorker" /\ aw[w].pc = "created"
  /\ IF ~aw[w].is_running
     THEN /\ AEmitAll(w, <<AFinished(w, FALSE, FALSE, "cancel_before")>>)
          /\ aw' = ADone(w, [aw EXCEPT ![w].pc = "done"])
          /\ UNCHANGED ahist
     ELSE /\ aw' = [aw EXCEPT ![w].pc = "request"]
          /\ ahist' = AObserve(w, [ahist[w] EXCEPT !.http = @ + 1])
          /\ UNCHANGED <<aemit, aq>>
  /\ UNCHANGED varsAudioApp
  /\ UNCHANGED varsVideo
  /\ UNCHANGED varsImage

\* the outcome ApiWorker.run emits for what the request delivered
ApiOutcome_mut(w, h) ==
  IF h.kind = "RequestException" THEN AFinished(w, FALSE, FALSE, "red")
  ELSE IF h.kind = "Exception" THEN AFinished(w, FALSE, FALSE, "exception")
  ELSE IF h.code = 200 THEN
         IF (aw[w].method # "POST" \/ h.body # "empty") /\ h.body # "json"
         THEN AFinished(w, FALSE, FALSE, "red")
         ELSE AFinished(w, TRUE, TRUE, "")
  ELSE AFinished(w, FALSE, FALSE, "http")

ApiOutcome(w, h) ==
  IF h.kind = "RequestException" THEN AFinished(w, FALSE, FALSE, "red")
  ELSE IF h.kind = "Exception" THEN AFinished(w, FALSE, FALSE, "exception")
  ELSE IF ~aw[w].is_running THEN AFinished(w, FALSE, FALSE, "cancel_during")
  ELSE IF h.code = 200 THEN
         IF (aw[w].method # "POST" \/ h.body # "empty") /\ h.body # "json"
         THEN AFinished(w, FALSE, FALSE, "red")
         ELSE AFinished(w, TRUE, TRUE, "")
  ELSE AFinished(w, FALSE, FALSE, "http")

\* ApiWorker.run from the return of the request to the end (finally included)
ApiRunComplete_mut(w) ==
  /\ aw[w].cls = "ApiWorker" /\ aw[w].pc = "request"
  /\ \E h \in ApiHttp :
       /\ IF h.kind = "Exception"
          THEN /\ aw' = [aw EXCEPT ![w].pc = "raised", ![w].is_running = FALSE]
               /\ UNCHANGED <<aemit, aq>>
          ELSE /\ AEmitAll(w, <<ApiOutcome(w, h)>>)
               /\ aw' = ADone(w, [aw EXCEPT ![w].pc = "done", ![w].is_running = FALSE])
       /\ ahist' = AObserve(w, [ahist[w] EXCEPT !.status_code = h.code])
  /\ UNCHANGED varsAudioApp
  /\ UNCHANGED varsVideo
  /\ UNCHANGED varsImage

ApiRunComplete(w) ==
  /\ aw[w].cls = "ApiWorker" /\ aw[w].pc = "request"
  /\ \E h \in ApiHttp :
       /\ AEmitAll(w, <<ApiOutcome(w, h)>>)
       /\ ahist' = AObserve(w, [ahist[w] EXCEPT !.status_code = h.code])
  /\ aw' = ADone(w, [aw EXCEPT ![w].pc = "done", ![w].is_running = FALSE])
  /\ UNCHANGED varsAudioApp
  /\ UNCHANGED varsVideo
  /\ UNCHANGED varsImage

\* What requests.post(stream=True) can deliver to AudioGenerator.run, with
\* the outcome of creating the temp file.
\*   length  the Content-Length header: -1 absent, -2 not a number
\*   open    "ok", "mkdir_fails" (os.makedirs raises), "open_fails" (open raises)
GenHttp ==
  { [kind |-> k, code |-> 0, length |-> -1, open |-> "ok"] :
      k \in {"RequestException", "Exception"} }
  \cup
  { [kind |-> "resp", code |-> 500, length |-> -1, open |-> "ok"] }
  \cup
  { [kind |-> "resp", code |-> 200, length |-> -1, open |-> o] :
      o \in {"mkdir_fails", "open_fails"} }
  \cup
  { [kind |-> "resp", code |-> 200, length |-> l, open |-> "ok"] :
      l \in (-2)..MaxDeclared }

\* int((total_size / expected_size) * 100).  For total_size <= 22 and
\* expected_size <= 12 the double-precision result equals the integer floor.
Percent(total_size, expected_size) == (total_size * 100) \div expected_size

\* (i * 5) % 100
Estimate_mut(i) == i * 5

Estimate(i) == (i * 5) % 100

\* AudioGenerator.run, first statement: the cancellation check before the request
GenRunBegin(w) ==
  /\ aw[w].cls = "AudioGenerator" /\ aw[w].pc = "created"
  /\ IF ~aw[w].is_running
     THEN /\ AEmitAll(w, <<AFinished(w, FALSE, FALSE, "cancel_before")>>)
          /\ aw' = ADone(w, [aw EXCEPT ![w].pc = "done"])
          /\ UNCHANGED ahist
     ELSE /\ aw' = [aw EXCEPT ![w].pc = "request"]
          /\ ahist' = AObserve(w, [ahist[w] EXCEPT !.http = @ + 1])
          /\ UNCHANGED <<aemit, aq>>
  /\ UNCHANGED varsAudioApp
  /\ UNCHANGED varsVideo
  /\ UNCHANGED varsImage

\* AudioGenerator.run from the return of requests.post to the start of the
\* for loop: cancellation check, status check, temp file, Content-Length
GenResponse(w) ==
  /\ aw[w].cls = "AudioGenerator" /\ aw[w].pc = "request"
  /\ \E h \in GenHttp :
       IF h.kind # "resp" THEN
         /\ AEmitAll(w, <<AFinished(w, FALSE, FALSE,
                            IF h.kind = "RequestException" THEN "red" ELSE "exception")>>)
         /\ aw' = ADone(w, [aw EXCEPT ![w].pc = "done", ![w].is_running = FALSE])
       ELSE IF ~aw[w].is_running THEN
         /\ AEmitAll(w, <<AFinished(w, FALSE, FALSE, "cancel_during")>>)
         /\ aw' = ADone(w, [aw EXCEPT ![w].pc = "done", ![w].is_running = FALSE])
       ELSE IF h.code # 200 THEN
         /\ AEmitAll(w, <<AFinished(w, FALSE, FALSE, "http")>>)
         /\ aw' = ADone(w, [aw EXCEPT ![w].pc = "done", ![w].is_running = FALSE])
       ELSE IF h.open # "ok" THEN
         /\ AEmitAll(w, <<AFinished(w, FALSE, FALSE, "exception")>>)
         /\ aw' = ADone(w, [aw EXCEPT ![w].pc = "done", ![w].is_running = FALSE])
       ELSE IF h.length = -2 THEN
         /\ AEmitAll(w, <<AFinished(w, TRUE, FALSE, "exception")>>)
         /\ aw' = ADone(w, [aw EXCEPT ![w].pc = "done", ![w].is_running = FALSE,
                             ![w].temp_file = TRUE])
       ELSE
         /\ aw' = [aw EXCEPT ![w].pc = "stream", ![w].temp_file = TRUE,
                             ![w].expected = h.length]
         /\ UNCHANGED <<aemit, aq>>
  /\ UNCHANGED ahist
  /\ UNCHANGED varsAudioApp
  /\ UNCHANGED varsVideo
  /\ UNCHANGED varsImage

\* leaving `with open(temp_file, "wb") as f` closes f; closing flushes the
\* bytes written so far, which can raise OSError when there are any
GenCloseCanFail(w) == aw[w].total_size > 0

\* one iteration of the for loop over response.iter_content: the next chunk
\* (len bytes, possibly none) arrives, then the cancellation check, the write
\* and the progress emission
GenChunkStep(w) ==
  /\ aw[w].cls = "AudioGenerator" /\ aw[w].pc = "stream"
  /\ \E len \in 0..MaxChunkLen, write_fails \in BOOLEAN, close_fails \in BOOLEAN :
       IF ~aw[w].is_running THEN
         /\ write_fails = FALSE
         /\ close_fails => GenCloseCanFail(w)
         /\ AEmitAll(w, <<AFinished(w, TRUE, FALSE, "cancel_download")>>
                        \o (IF close_fails
                            THEN <<AFinished(w, TRUE, FALSE, "exception")>> ELSE <<>>))
         /\ aw' = ADone(w, [aw EXCEPT ![w].pc = "done"])
         /\ ahist' = AObserve(w, [ahist[w] EXCEPT !.closeFailed = close_fails])
       ELSE IF len = 0 THEN
         /\ write_fails = FALSE /\ close_fails = FALSE
         /\ aw' = [aw EXCEPT ![w].i = @ + 1]
         /\ UNCHANGED <<aemit, aq, ahist>>
       ELSE IF write_fails THEN
         /\ close_fails = FALSE
         /\ AEmitAll(w, <<AFinished(w, TRUE, FALSE, "exception")>>)
         /\ aw' = ADone(w, [aw EXCEPT ![w].pc = "done", ![w].is_running = FALSE])
         /\ UNCHANGED ahist
       ELSE
         /\ close_fails = FALSE
         /\ aw' = [aw EXCEPT ![w].i = @ + 1, ![w].total_size = @ + len]
         /\ AEmitAll(w, <<AProgress(w,
                            IF aw[w].expected > 0
                            THEN Percent(aw[w].total_size + len, aw[w].expected)
                            ELSE Estimate(aw[w].i))>>)
         /\ UNCHANGED ahist
  /\ UNCHANGED varsAudioApp
  /\ UNCHANGED varsVideo
  /\ UNCHANGED varsImage

\* the for loop, for streams of at most MaxChunks chunks
GenChunk(w) ==
  /\ aw[w].i < MaxChunks
  /\ GenChunkStep(w)

\* iter_content raises (the connection breaks in mid-stream)
GenStreamError(w) ==
  /\ aw[w].cls = "AudioGenerator" /\ aw[w].pc = "stream"
  /\ AEmitAll(w, <<AFinished(w, TRUE, FALSE, "red")>>)
  /\ aw' = ADone(w, [aw EXCEPT ![w].pc = "done", ![w].is_running = FALSE])
  /\ UNCHANGED ahist
  /\ UNCHANGED varsAudioApp
  /\ UNCHANGED varsVideo
  /\ UNCHANGED varsImage

\* the stream ends: the with block is left, then the empty-file check, the
\* forced progress 100 and the success outcome
GenStreamEnd_mut(w) ==
  /\ aw[w].cls = "AudioGenerator" /\ aw[w].pc = "stream"
  /\ \E close_fails \in BOOLEAN :
       /\ close_fails => GenCloseCanFail(w)
       /\ AEmitAll(w,
            IF close_fails THEN <<AFinished(w, TRUE, FALSE, "exception")>>
            ELSE <<AProgress(w, 100), AFinished(w, TRUE, TRUE, "")>>)
       /\ ahist' = AObserve(w, [ahist[w] EXCEPT !.ended = TRUE, !.closeFailed = close_fails])
  /\ aw' = ADone(w, [aw EXCEPT ![w].pc = "done", ![w].is_running = FALSE])
  /\ UNCHANGED varsAudioApp
  /\ UNCHANGED varsVideo
  /\ UNCHANGED varsImage

GenStreamEnd(w) ==
  /\ aw[w].cls = "AudioGenerator" /\ aw[w].pc = "stream"
  /\ \E close_fails \in BOOLEAN :
       /\ close_fails => GenCloseCanFail(w)
       /\ AEmitAll(w,
            IF close_fails THEN <<AFinished(w, TRUE, FALSE, "exception")>>
            ELSE IF aw[w].total_size = 0 THEN <<AFinished(w, TRUE, FALSE, "empty")>>
            ELSE <<AProgress(w, 100), AFinished(w, TRUE, TRUE, "")>>)
       /\ ahist' = AObserve(w, [ahist[w] EXCEPT !.ended = TRUE, !.closeFailed = close_fails])
  /\ aw' = ADone(w, [aw EXCEPT ![w].pc = "done", ![w].is_running = FALSE])
  /\ UNCHANGED varsAudioApp
  /\ UNCHANGED varsVideo
  /\ UNCHANGED varsImage

ARunStep(w) ==
  \/ ApiRunBegin(w)
  \/ ApiRunComplete(w)
  \/ GenRunBegin(w)
  \/ GenResponse(w)
  \/ GenChunk(w)
  \/ GenStreamError(w)
  \/ GenStreamEnd(w)

\* ApiWorker.stop, AudioGenerator.stop; stops counts the calls
AStop_mut(w) ==
  /\ aw[w].pc # "none"
  /\ ahist[w].stops < MaxStops
  /\ aw' = [aw EXCEPT ![w].is_running = ~@]
  /\ ahist' = AObserve(w, [ahist[w] EXCEPT
                              !.stoppedFirst = @ \/ (aw[w].pc = "created"),
                              !.stoppedEarly = @ \/ (aw[w].pc \in {"created", "request"}),
                              !.stops = @ + 1])
  /\ UNCHANGED <<aemit, aq>>
  /\ UNCHANGED varsAudioApp
  /\ UNCHANGED varsVideo
  /\ UNCHANGED varsImage

AStop(w) ==
  /\ aw[w].pc # "none"
  /\ ahist[w].stops < MaxStops
  /\ aw' = [aw EXCEPT ![w].is_running = FALSE]
  /\ ahist' = AObserve(w, [ahist[w] EXCEPT
                              !.stoppedFirst = @ \/ (aw[w].pc = "created"),
                              !.stoppedEarly = @ \/ (aw[w].pc \in {"created", "request"}),
                              !.stops = @ + 1])
  /\ UNCHANGED <<aemit, aq>>
  /\ UNCHANGED varsAudioApp
  /\ UNCHANGED varsVideo
  /\ UNCHANGED varsImage

\* ------------------------------------------ ImageGeneratorThread (Imagenes)
\* pc of the thread: "none" (not constructed), "created" (started, run() not
\* yet entered), "request" (inside requests.post), "blocked" (inside a
\* requests.post that will not return), "done" (run() returned)
NoIThread == [pc |-> "none"]

\* MainWindow: thread tells whether self.thread refers to a thread the window
\* created; ui is the state toggle_ui gave the inputs, generate_button and
\* clear_button; current_image tells whether self.current_image holds image
\* data; save_button is the enabled flag of that button; dialog tells that a
\* modal QMessageBox or file dialog is open; generations counts the threads
\* started; handled lists the slots run since the last thread was started;
\* reenabled counts the toggle_ui(True) calls among them
NoIApp ==
  [thread |-> FALSE, ui |-> TRUE, current_image |-> FALSE, save_button |-> FALSE,
   dialog |-> FALSE, generations |-> 0, handled |-> <<>>, reenabled |-> 0]

\* ImageGeneratorThread.__init__ and start()
NewIThread == [pc |-> "created"]

ISig(sig, arg) == [sig |-> sig, arg |-> arg]

\* What requests.post can deliver to ImageGeneratorThread.run
ImageHttp ==
  { [kind |-> "Exception", code |-> 0] }
  \cup
  { [kind |-> "resp", code |-> c] : c \in {200, 503} }

\* Signal.emit of the thread's signals: queued for the GUI thread when
\* generate_image connected them (the window lives in the GUI thread),
\* recorded otherwise
IEmitAll(sigs) ==
  IF iapp.thread
  THEN /\ iq' = iq \o sigs
       /\ UNCHANGED iemit
  ELSE /\ iemit' = iemit \o sigs
       /\ UNCHANGED iq

\* run() up to requests.post
IRunBegin ==
  /\ ithr.pc = "created"
  /\ ithr' = [ithr EXCEPT !.pc = "request"]
  /\ IEmitAll(<<ISig("progress_signal", "enviando")>>)
  /\ UNCHANGED iapp
  /\ UNCHANGED varsVideo
  /\ UNCHANGED varsAudio

\* the signals run() emits for what requests.post delivered
IOutcome(h) ==
  IF h.kind = "Exception" THEN <<ISig("error_signal", "exception")>>
  ELSE IF h.code = 200
    THEN <<ISig("result_signal", "content"), ISig("finished_signal", "elapsed")>>
  ELSE <<ISig("error_signal", "http")>>

\* run() from the return of requests.post to the end
IRunComplete ==
  /\ ithr.pc = "request"
  /\ ithr' = [ithr EXCEPT !.pc = "done"]
  /\ \E h \in ImageHttp : IEmitAll(IOutcome(h))
  /\ UNCHANGED iapp
  /\ UNCHANGED varsVideo
  /\ UNCHANGED varsAudio

\* requests.post is called without a timeout (line 50): when the server
\* accepts the connection and never answers, the call does not return
IRunBlocked ==
  /\ ithr.pc = "request"
  /\ ithr' = [ithr EXCEPT !.pc = "blocked"]
  /\ UNCHANGED <<iemit, iq, iapp>>
  /\ UNCHANGED varsVideo
  /\ UNCHANGED varsAudio

ImageUnused == ithr = NoIThread /\ iemit = <<>> /\ iq = <<>> /\ iapp = NoIApp

AudioAppUnused ==
  /\ aq = <<>>
  /\ athr = [w \in AIds |-> NoAThread]
  /\ aapp = NoAApp
  /\ astack = <<>>
  /\ alast = NoALast

AudioUnused ==
  /\ aw = [w \in AIds |-> NoAWorker]
  /\ aemit = [w \in AIds |-> <<>>]
  /\ ahist = [w \in AIds |-> NoAHist]
  /\ AudioAppUnused

VideoUnused ==
  /\ vw = [w \in VIds |-> NoVWorker]
  /\ vemit = [w \in VIds |-> <<>>]
  /\ vq = <<>>
  /\ vstop = [w \in VIds |-> "no"]
  /\ vapp = NoVApp
  /\ vstack = <<>>
  /\ vhist = [w \in VIds |-> NoVHist]
  /\ vcall = NoVCall

\* ------------------------------------------- specification SpecAudioWorker
InitAudioWorker ==
  /\ \E cls \in {"ApiWorker", "AudioGenerator"}, method \in {"GET", "POST"} :
       /\ cls = "AudioGenerator" => method = "POST"
       /\ aw = [w \in AIds |-> IF w = 1 THEN NewAWorker(cls, method, FALSE) ELSE NoAWorker]
  /\ aemit = [w \in AIds |-> <<>>]
  /\ ahist = [w \in AIds |-> NoAHist]
  /\ AudioAppUnused
  /\ VideoUnused
  /\ ImageUnused

NextAudioWorker ==
  \/ ARunStep(1)
  \/ AStop(1)

SpecAudioWorker == InitAudioWorker /\ [][NextAudioWorker]_vars

\* ------------------------------------------- specification SpecVideoWorker
InitVideoWorker ==
  /\ vw = [w \in VIds |-> IF w = 1 THEN NewVWorker("k1", "t1", FALSE) ELSE NoVWorker]
  /\ vemit = [w \in VIds |-> <<>>]
  /\ vq = <<>>
  /\ vstop = [w \in VIds |-> "no"]
  /\ vapp = NoVApp
  /\ vstack = <<>>
  /\ vhist = [w \in VIds |-> NoVHist]
  /\ vcall = NoVCall
  /\ AudioUnused
  /\ ImageUnused

NextVideoWorker ==
  \/ VThreadStart(1)
  \/ VRunStep(1)
  \/ VStop(1)
  \/ VStopReturn(1)

SpecVideoWorker == InitVideoWorker /\ [][NextVideoWorker]_vars

\* -------------------------------------- NovitaVideoGeneratorApp (Video)
\* What requests.post can deliver to start_image_to_video_task.
SubmitHttp ==
  { [kind |-> "exc", code |-> 0, body |-> "none", task_id |-> ""] }
  \cup
  { [kind |-> "resp", code |-> c, body |-> b, task_id |-> ""] :
      c \in {200, 500}, b \in {"empty", "notjson"} }
  \cup
  { [kind |-> "resp", code |-> c, body |-> "json", task_id |-> t] :
      c \in {200, 500}, t \in {"", "t1"} }

\* NovitaApiClient.start_image_to_video_task: (task_id, message); task_id "" is None
start_image_to_video_task(api_key, image_url, prompt, h) ==
  IF api_key = "" THEN [task_id |-> "", msg |-> "nokey"]
  ELSE IF image_url = "" THEN [task_id |-> "", msg |-> "nourl"]
  ELSE IF prompt = "" THEN [task_id |-> "", msg |-> "noprompt"]
  ELSE IF h.kind = "exc" THEN [task_id |-> "", msg |-> "conn"]
  ELSE IF h.code = 200 THEN
         IF h.body # "json" THEN [task_id |-> "", msg |-> "unexpected"]
         ELSE IF h.task_id # "" THEN [task_id |-> h.task_id, msg |-> "iniciada"]
         ELSE [task_id |-> "", msg |-> "notaskid"]
  ELSE IF h.body = "notjson" THEN [task_id |-> "", msg |-> "unexpected"]
  ELSE [task_id |-> "", msg |-> "http"]

\* ------------------------------------------- specification SpecVideoClient
\* one call of NovitaApiClient.start_image_to_video_task, for every API key,
\* image URL, prompt and outcome of requests.post
InitVideoClient ==
  /\ \E k \in {"", "k1"}, u \in {"", "img"}, p \in {"", "p"}, h \in SubmitHttp :
       vcall = [NoVCall EXCEPT !.fn = "start_image_to_video_task", !.api_key = k,
                               !.image_url = u, !.prompt = p, !.h = h]
  /\ vw = [w \in VIds |-> NoVWorker]
  /\ vemit = [w \in VIds |-> <<>>]
  /\ vq = <<>>
  /\ vstop = [w \in VIds |-> "no"]
  /\ vapp = NoVApp
  /\ vstack = <<>>
  /\ vhist = [w \in VIds |-> NoVHist]
  /\ AudioUnused
  /\ ImageUnused

\* the call returns
VClientCall ==
  /\ vcall.fn = "start_image_to_video_task" /\ ~vcall.returned
  /\ vcall' = [vcall EXCEPT
                 !.returned = TRUE,
                 !.ret = start_image_to_video_task(vcall.api_key, vcall.image_url,
                                                   vcall.prompt, vcall.h)]
  /\ UNCHANGED <<vw, vemit, vq, vstop, vapp, vstack, vhist>>
  /\ UNCHANGED varsAudio
  /\ UNCHANGED varsImage

NextVideoClient == VClientCall

SpecVideoClient == InitVideoClient /\ [][NextVideoClient]_vars

\* A frame of vstack is a nested event loop opened by a slot that has code
\* left to run after it: QApplication.processEvents() ("pe_...") or the exec()
\* of a modal dialog ("dlg_...").  A QMessageBox shown as the last statement
\* of a slot is not a frame: its event loop delivers the queued signals the
\* enclosing loop delivers, and nothing runs when it is dismissed.
VFrame(k, valid) == [k |-> k, valid |-> valid]

VDepthOk == Len(vstack) < MaxDepth
VTop == vstack[Len(vstack)]
VPop == SubSeq(vstack, 1, Len(vstack) - 1)
VTopIs(k) == IF vstack = <<>> THEN FALSE ELSE VTop.k = k

\* the GUI thread dispatches user input: in the main loop or inside processEvents()
VCanClick ==
  /\ ~vapp.closed
  /\ IF vstack = <<>> THEN TRUE ELSE VTop.k \in {"pe_check", "pe_gen"}

enable_input_controls_mut(a) == [a EXCEPT !.inputs = TRUE]

enable_input_controls(a) == [a EXCEPT !.generate_button = TRUE, !.inputs = TRUE]

\* check_and_save_api_key, up to and including QApplication.processEvents()
check_and_save_api_key_begin ==
  /\ VCanClick /\ VDepthOk
  /\ vapp.check_api_button
  /\ \E current_key \in {"", "k1"} :
       IF current_key = ""
       THEN UNCHANGED <<vapp, vstack>>
       ELSE /\ vapp' = [vapp EXCEPT !.check_api_button = FALSE]
            /\ vstack' = Append(vstack, VFrame("pe_check", FALSE))
  /\ UNCHANGED <<vw, vemit, vq, vstop, vhist>>
  /\ UNCHANGED vcall
  /\ UNCHANGED varsAudio
  /\ UNCHANGED varsImage

\* check_and_save_api_key from check_api_status() to the QMessageBox
check_and_save_api_key_verify ==
  /\ VTopIs("pe_check")
  /\ vq = <<>>
  /\ \E is_valid \in BOOLEAN :
       /\ vapp' = IF is_valid
                  THEN [vapp EXCEPT !.novita_client = TRUE, !.generate_button = TRUE,
                                    !.gui_blocking = "check_api_status"]
                  ELSE [vapp EXCEPT !.generate_button = FALSE,
                                    !.gui_blocking = "check_api_status"]
       /\ vstack' = Append(VPop, VFrame("dlg_check", is_valid))
  /\ UNCHANGED <<vw, vemit, vq, vstop, vhist>>
  /\ UNCHANGED vcall
  /\ UNCHANGED varsAudio
  /\ UNCHANGED varsImage

\* check_and_save_api_key after its QMessageBox is dismissed
check_and_save_api_key_end ==
  /\ VTopIs("dlg_check")
  /\ vapp' = [vapp EXCEPT !.check_api_button = TRUE,
                          !.novita_client = IF VTop.valid THEN @ ELSE FALSE]
  /\ vstack' = VPop
  /\ UNCHANGED <<vw, vemit, vq, vstop, vhist>>
  /\ UNCHANGED vcall
  /\ UNCHANGED varsAudio
  /\ UNCHANGED varsImage

\* start_video_generation, up to and including QApplication.processEvents()
start_video_generation_begin ==
  /\ VCanClick /\ VDepthOk
  /\ vapp.generate_button
  /\ \E image_url \in {"", "img"}, prompt_text \in {"", "p"} :
       IF ~vapp.novita_client \/ image_url = "" \/ prompt_text = ""
       THEN UNCHANGED <<vapp, vstack>>
       ELSE /\ vapp' = [vapp EXCEPT !.generate_button = FALSE, !.inputs = FALSE,
                                    !.open_video_button = FALSE,
                                    !.save_video_button = FALSE,
                                    !.last_video_url = ""]
            /\ vstack' = Append(vstack, VFrame("pe_gen", FALSE))
  /\ UNCHANGED <<vw, vemit, vq, vstop, vhist>>
  /\ UNCHANGED vcall
  /\ UNCHANGED varsAudio
  /\ UNCHANGED varsImage

\* start_video_generation from start_image_to_video_task() on.  When the
\* client was reset to None inside processEvents() the call raises and the
\* slot ends there.
start_video_generation_submit ==
  /\ VTopIs("pe_gen")
  /\ vq = <<>>
  /\ vstack' = VPop
  /\ IF ~vapp.novita_client
     THEN /\ vapp' = [vapp EXCEPT !.no_task_id = FALSE]
          /\ UNCHANGED vw
     ELSE \E h \in SubmitHttp :
            LET r == start_image_to_video_task("k1", "img", "p", h) IN
            IF r.task_id # ""
            THEN \E w \in VIds :
                   /\ vw[w].pc = "none"
                   /\ \A x \in VIds : x < w => vw[x].pc # "none"
                   /\ vemit[w] = <<>>
                   /\ vapp' = [vapp EXCEPT !.current_task_id = r.task_id,
                                           !.video_task_worker = w,
                                           !.gui_blocking = "start_image_to_video_task",
                                           !.no_task_id = FALSE]
                   /\ vw' = [vw EXCEPT ![w] =
                               [NewVWorker("k1", r.task_id, TRUE) EXCEPT !.pc = "started"]]
            ELSE /\ vapp' = [enable_input_controls(vapp) EXCEPT
                                !.gui_blocking = "start_image_to_video_task",
                                !.no_task_id = (h.kind = "resp" /\ h.code = 200
                                                /\ h.body = "json" /\ h.task_id = "")]
                 /\ UNCHANGED vw
  /\ UNCHANGED <<vemit, vq, vstop, vhist>>
  /\ UNCHANGED vcall
  /\ UNCHANGED varsAudio
  /\ UNCHANGED varsImage

\* save_video_file up to file_dialog.exec()
save_video_file_begin ==
  /\ VCanClick /\ VDepthOk
  /\ vapp.save_video_button
  /\ vapp.last_video_url # ""
  /\ vstack' = Append(vstack, VFrame("dlg_file", FALSE))
  /\ UNCHANGED <<vw, vemit, vq, vstop, vapp, vhist>>
  /\ UNCHANGED vcall
  /\ UNCHANGED varsAudio
  /\ UNCHANGED varsImage

\* save_video_file from the result of the file dialog to the QMessageBox
\* that reports the download
save_video_file_download ==
  /\ VTopIs("dlg_file")
  /\ \E accepted \in BOOLEAN :
       IF accepted
       THEN /\ vapp' = [vapp EXCEPT !.save_video_button = FALSE,
                                    !.open_video_button = FALSE,
                                    !.generate_button = FALSE,
                                    !.gui_blocking = "download"]
            /\ vstack' = Append(VPop, VFrame("dlg_save", FALSE))
       ELSE /\ vstack' = VPop
            /\ UNCHANGED vapp
  /\ UNCHANGED <<vw, vemit, vq, vstop, vhist>>
  /\ UNCHANGED vcall
  /\ UNCHANGED varsAudio
  /\ UNCHANGED varsImage

\* save_video_file: the finally block
save_video_file_finally ==
  /\ VTopIs("dlg_save")
  /\ vapp' = [vapp EXCEPT
                !.save_video_button = IF vapp.last_video_url # "" THEN TRUE ELSE @,
                !.open_video_button = IF vapp.last_video_url # "" THEN TRUE ELSE @,
                !.generate_button = TRUE]
  /\ vstack' = VPop
  /\ UNCHANGED <<vw, vemit, vq, vstop, vhist>>
  /\ UNCHANGED vcall
  /\ UNCHANGED varsAudio
  /\ UNCHANGED varsImage

\* update_status_output, delivered from the queue
update_status_output ==
  /\ ~vapp.closed
  /\ vq # <<>> /\ Head(vq).sig = "task_status_updated"
  /\ vq' = Tail(vq)
  /\ vhist' = [vhist EXCEPT ![Head(vq).w].status_handled = TRUE]
  /\ UNCHANGED <<vw, vemit, vstop, vapp, vstack>>
  /\ UNCHANGED vcall
  /\ UNCHANGED varsAudio
  /\ UNCHANGED varsImage

\* on_task_completed, delivered from the queue
on_task_completed ==
  /\ ~vapp.closed
  /\ vq # <<>> /\ Head(vq).sig = "task_completed"
  /\ vq' = Tail(vq)
  /\ vapp' = [enable_input_controls(vapp) EXCEPT
                !.last_video_url = Head(vq).arg,
                !.open_video_button = TRUE, !.save_video_button = TRUE,
                !.current_task_id = "", !.video_task_worker = 0]
  /\ vhist' = [vhist EXCEPT ![Head(vq).w].terminal_handled = TRUE]
  /\ UNCHANGED <<vw, vemit, vstop, vstack>>
  /\ UNCHANGED vcall
  /\ UNCHANGED varsAudio
  /\ UNCHANGED varsImage

\* on_task_failed, delivered from the queue
on_task_failed ==
  /\ ~vapp.closed
  /\ vq # <<>> /\ Head(vq).sig = "task_failed"
  /\ vq' = Tail(vq)
  /\ vapp' = [enable_input_controls(vapp) EXCEPT
                !.last_video_url = "",
                !.open_video_button = FALSE, !.save_video_button = FALSE,
                !.current_task_id = "", !.video_task_worker = 0]
  /\ vhist' = [vhist EXCEPT ![Head(vq).w].terminal_handled = TRUE]
  /\ UNCHANGED <<vw, vemit, vstop, vstack>>
  /\ UNCHANGED vcall
  /\ UNCHANGED varsAudio
  /\ UNCHANGED varsImage

\* The Python object of a worker is freed once run() has returned, the
\* controller holds no reference to it and none of its signals is pending.
VReclaim(w) ==
  /\ vw[w].pc = "done"
  /\ vapp.video_task_worker # w
  /\ \A i \in DOMAIN vq : vq[i].w # w
  /\ vw' = [vw EXCEPT ![w] = NoVWorker]
  /\ vemit' = [vemit EXCEPT ![w] = <<>>]
  /\ vhist' = [vhist EXCEPT ![w] = NoVHist]
  /\ UNCHANGED <<vq, vstop, vapp, vstack>>
  /\ UNCHANGED vcall
  /\ UNCHANGED varsAudio
  /\ UNCHANGED varsImage

\* The user closes the main window.  NovitaVideoGeneratorApp defines no
\* closeEvent: the window closes, app.exec() returns and sys.exit ends the
\* process with whatever the workers were doing.
VWindowClosed ==
  /\ ~vapp.closed /\ vstack = <<>>
  /\ vapp' = [vapp EXCEPT !.closed = TRUE]
  /\ UNCHANGED <<vw, vemit, vq, vstop, vstack, vhist>>
  /\ UNCHANGED vcall
  /\ UNCHANGED varsAudio
  /\ UNCHANGED varsImage

\* ---------------------------------------------- specification SpecVideoApp
InitVideoApp ==
  /\ vw = [w \in VIds |-> NoVWorker]
  /\ vemit = [w \in VIds |-> <<>>]
  /\ vq = <<>>
  /\ vstop = [w \in VIds |-> "no"]
  /\ vapp = NoVApp
  /\ vstack = <<>>
  /\ vhist = [w \in VIds |-> NoVHist]
  /\ vcall = NoVCall
  /\ AudioUnused
  /\ ImageUnused

NextVideoApp ==
  \/ check_and_save_api_key_begin
  \/ check_and_save_api_key_verify
  \/ check_and_save_api_key_end
  \/ start_video_generation_begin
  \/ start_video_generation_submit
  \/ save_video_file_begin
  \/ save_video_file_download
  \/ save_video_file_finally
  \/ update_status_output
  \/ on_task_completed
  \/ on_task_failed
  \/ \E w \in VIds : ~vapp.closed /\ VRunStep(w)
  \/ \E w \in VIds : ~vapp.closed /\ VReclaim(w)
  \/ VWindowClosed

SpecVideoApp == InitVideoApp /\ [][NextVideoApp]_vars

\* ------------------------------------------------- ElevenLabsTTS (Audio)
\* A frame of astack is a modal QMessageBox opened by a slot that has code
\* left to run after it.  k is "reject" (the warning of _start_worker, after
\* which the caller sees False) or "failed" (the warning of a result callback);
\* caller names the method whose code follows; then is "get_models" when
\* on_connect_finished still has get_models() to call.
AFrame(k, caller, then) == [k |-> k, caller |-> caller, then |-> then]
ATop == astack[Len(astack)]
APop == SubSeq(astack, 1, Len(astack) - 1)

\* every dialog of the Audio app is modal: the GUI thread dispatches user
\* input only in its main loop
ACanClick == ~aapp.crashed /\ astack = <<>> /\ aapp.closing = "no"

\* the GUI thread is in an event loop (not inside closeEvent)
AInLoop == ~aapp.crashed /\ aapp.closing \in {"no", "closed"}

\* The controller's handlers are functions of a state record s:
\*   app, thr, w, hist   the values of aapp, athr, aw, ahist
\*   stack, q            the dialogs open and the queue left to deliver
\*   last                the observation of the last _start_worker call
\*   ok                  FALSE when the step needs more than the bounds allow
ACur(q, stack) ==
  [app |-> aapp, thr |-> athr, w |-> aw, hist |-> ahist, stack |-> stack,
   q |-> q, last |-> alast, ok |-> TRUE]

ACommit(s) ==
  /\ s.ok
  /\ aapp' = s.app /\ athr' = s.thr /\ aw' = s.w /\ ahist' = s.hist
  /\ astack' = s.stack /\ aq' = s.q /\ alast' = s.last
  /\ UNCHANGED aemit
  /\ UNCHANGED varsVideo
  /\ UNCHANGED varsImage

\* The Python reference to a QThread that is still running is dropped: the
\* QThread destructor aborts the process (qFatal "QThread: Destroyed while
\* thread is still running").
ACrashed(s) ==
  [s EXCEPT !.app = [NoAApp EXCEPT !.crashed = TRUE],
            !.thr = [t \in AIds |-> NoAThread],
            !.w = [t \in AIds |-> NoAWorker],
            !.hist = [t \in AIds |-> NoAHist],
            !.stack = <<>>, !.q = <<>>]

AFreeIds(s) == {t \in AIds : s.w[t].pc = "none" /\ s.thr[t].state = "none"}
AMin(S) == CHOOSE t \in S : \A u \in S : t <= u

\* the test of _start_worker: self.worker_thread is not None and
\* self.worker_thread.isRunning()
AIsBusy_mut(app, thr) ==
  app.worker_thread # 0 /\ app.worker = 0 /\ thr[app.worker_thread].state = "running"

AIsBusy(app, thr) ==
  app.worker_thread # 0 /\ thr[app.worker_thread].state = "running"

\* ElevenLabsTTS._start_worker(worker_instance, on_finished_slot, ...) called
\* by caller; worker_instance is a new cls object
_start_worker(s, cls, method, slot, caller, then) ==
  LET busy == \E t \in AIds : s.thr[t].state = "running"
      old == s.app.worker_thread
  IN
  IF AIsBusy(s.app, s.thr) THEN
    IF Len(s.stack) < MaxDepth
    THEN [s EXCEPT !.stack = Append(@, AFrame("reject", caller, then)),
                   !.last = [busy |-> busy, ret |-> "False", started |-> 0,
                             kept |-> TRUE]]
    ELSE [s EXCEPT !.ok = FALSE]
  ELSE IF old # 0 /\ s.thr[old].state = "running" THEN
    [ACrashed(s) EXCEPT !.last = [busy |-> busy, ret |-> "abort", started |-> 0,
                                  kept |-> FALSE]]
  ELSE IF AFreeIds(s) = {} THEN [s EXCEPT !.ok = FALSE]
  ELSE
    LET t == AMin(AFreeIds(s)) IN
    [s EXCEPT !.w[t] = NewAWorker(cls, method, TRUE),
              !.thr = [u \in AIds |->
                         IF u = t THEN [state |-> "running", quit |-> FALSE, slot |-> slot,
                                        wired |-> TRUE, fin_wired |-> TRUE,
                                        run_enabled |-> TRUE]
                         ELSE IF u = old THEN NoAThread
                         ELSE s.thr[u]],
              !.app.worker = t, !.app.worker_thread = t,
              !.last = [busy |-> busy, ret |-> "True", started |-> t, kept |-> FALSE]]

\* ElevenLabsTTS._clear_worker_references
_clear_worker_references(s) ==
  LET old == s.app.worker_thread IN
  IF old # 0 /\ s.thr[old].state = "running" THEN ACrashed(s)
  ELSE [s EXCEPT !.app.worker = 0, !.app.worker_thread = 0,
                 !.thr = [u \in AIds |-> IF u = old THEN NoAThread ELSE s.thr[u]],
                 !.app.connect_button = TRUE,
                 !.app.refresh_button = s.app.api_key \/ @,
                 !.app.refresh_models_button = s.app.api_key \/ @]

\* ElevenLabsTTS.connect_api
connect_api(s, key_given) ==
  IF ~key_given THEN s
  ELSE _start_worker([s EXCEPT !.app.connect_button = FALSE],
                     "ApiWorker", "GET", "connect", "connect", "none")

\* ElevenLabsTTS.get_models
get_models(s) ==
  IF ~s.app.api_key THEN s
  ELSE _start_worker([s EXCEPT !.app.refresh_models_button = FALSE],
                     "ApiWorker", "GET", "models", "models", "none")

\* ElevenLabsTTS.get_voices; then is what the caller does after it returns
get_voices(s, then) ==
  IF ~s.app.api_key
  THEN IF then = "get_models" THEN get_models(s) ELSE s
  ELSE LET r == _start_worker([s EXCEPT !.app.refresh_button = FALSE],
                              "ApiWorker", "GET", "voices", "voices", then)
       IN IF r.ok /\ r.last.ret = "True" /\ then = "get_models"
          THEN get_models(r) ELSE r

\* ElevenLabsTTS.generate_audio
generate_audio(s, text_given) ==
  IF ~text_given \/ ~s.app.api_key \/ ~s.app.has_voices \/ ~s.app.has_models THEN s
  ELSE _start_worker([s EXCEPT !.app.generate_button = FALSE],
                     "AudioGenerator", "POST", "audio", "audio", "none")

\* the user clicks connect_button
connect_button_clicked ==
  /\ ACanClick
  /\ aapp.connect_button
  /\ \E key_given \in BOOLEAN : ACommit(connect_api(ACur(aq, astack), key_given))

\* the user clicks refresh_button
refresh_button_clicked ==
  /\ ACanClick
  /\ aapp.refresh_button
  /\ ACommit(get_voices(ACur(aq, astack), "none"))

\* the user clicks refresh_models_button
refresh_models_button_clicked ==
  /\ ACanClick
  /\ aapp.refresh_models_button
  /\ ACommit(get_models(ACur(aq, astack)))

\* the user clicks generate_button
generate_button_clicked ==
  /\ ACanClick
  /\ aapp.generate_button
  /\ \E text_given \in BOOLEAN : ACommit(generate_audio(ACur(aq, astack), text_given))

\* QThread.started -> worker.run: run() executes in the worker's thread
AThreadRun(t) ==
  /\ athr[t].state = "running"
  /\ aw[t].pc = "created" => athr[t].run_enabled
  /\ ARunStep(t)

\* the thread leaves its event loop after quit() once run() has returned, and
\* emits QThread.finished: thread.deleteLater and _clear_worker_references
\* are queued on the GUI thread
AThreadExit(t) ==
  /\ athr[t].state = "running"
  /\ athr[t].quit
  /\ aw[t].pc = "done" \/ (aw[t].pc = "created" /\ ~athr[t].run_enabled)
  /\ athr' = [athr EXCEPT ![t].state = "finished"]
  /\ IF athr[t].fin_wired /\ aapp.closing # "closed"
     THEN /\ Len(aq) < MaxQueue + 3
          /\ aq' = Append(aq, AEntry("clear", t, FALSE, FALSE))
     ELSE UNCHANGED aq
  /\ UNCHANGED <<aw, aemit, ahist, aapp, astack, alast>>
  /\ UNCHANGED varsVideo
  /\ UNCHANGED varsImage

ADeliver(slot) == AInLoop /\ aq # <<>> /\ Head(aq).slot = slot

\* update_progress, delivered from the queue
update_progress ==
  /\ ADeliver("progress")
  /\ aq' = Tail(aq)
  /\ ahist' = [ahist EXCEPT ![Head(aq).w].progress_handled = TRUE]
  /\ UNCHANGED <<aw, aemit, athr, aapp, astack, alast>>
  /\ UNCHANGED varsVideo
  /\ UNCHANGED varsImage

\* QThread.quit, delivered from the queue (the QThread object lives in the
\* GUI thread)
AThreadQuit ==
  /\ ADeliver("quit")
  /\ aq' = Tail(aq)
  /\ athr' = [athr EXCEPT ![Head(aq).w].quit = (athr[Head(aq).w].state = "running")]
  /\ UNCHANGED <<aw, aemit, ahist, aapp, astack, alast>>
  /\ UNCHANGED varsVideo
  /\ UNCHANGED varsImage

\* _clear_worker_references, delivered from the queue
clear_worker_references_delivered ==
  /\ ADeliver("clear")
  /\ ACommit(_clear_worker_references(ACur(Tail(aq), astack)))

\* on_connect_finished, delivered from the queue
on_connect_finished ==
  /\ ADeliver("connect")
  /\ LET s == ACur(Tail(aq), astack) IN
     IF Head(aq).ok
     THEN ACommit(get_voices([s EXCEPT !.app.api_key = TRUE,
                                       !.app.refresh_button = TRUE,
                                       !.app.refresh_models_button = TRUE],
                             "get_models"))
     ELSE ACommit(s)

\* a result callback shows its warning and has code left to run after it
AFailed(s, caller) ==
  IF Len(s.stack) < MaxDepth
  THEN [s EXCEPT !.stack = Append(@, AFrame("failed", caller, "none"))]
  ELSE [s EXCEPT !.ok = FALSE]

\* on_get_voices_finished, delivered from the queue
on_get_voices_finished ==
  /\ ADeliver("voices")
  /\ LET s == ACur(Tail(aq), astack) IN
     IF Head(aq).ok
     THEN \E some_voice \in BOOLEAN :
            ACommit([s EXCEPT !.app.has_voices = some_voice,
                              !.app.generate_button = some_voice \/ @,
                              !.app.refresh_button = s.app.api_key \/ @])
     ELSE ACommit(AFailed(s, "voices"))

\* on_get_models_finished, delivered from the queue
on_get_models_finished ==
  /\ ADeliver("models")
  /\ LET s == ACur(Tail(aq), astack) IN
     IF Head(aq).ok
     THEN \E some_model \in BOOLEAN :
            ACommit([s EXCEPT !.app.has_models = some_model,
                              !.app.refresh_models_button = s.app.api_key \/ @])
     ELSE ACommit(AFailed(s, "models"))

\* on_audio_generated, delivered from the queue.  On success the file becomes
\* self.current_audio_file (the file that attribute named before is left on
\* disk).  On failure a file that exists is removed; os.remove runs after the
\* warning is dismissed, and nothing else looks at the file while the modal
\* dialog is open, so the removal is taken with the delivery.
on_audio_generated ==
  /\ ADeliver("audio")
  /\ LET w == Head(aq).w
         exists == Head(aq).path /\ aw[w].temp_file
         s == [ACur(Tail(aq), astack) EXCEPT
                 !.hist[w].terminal_handled = TRUE,
                 !.w[w].temp_file = IF exists THEN FALSE ELSE @] IN
     IF Head(aq).ok /\ exists
     THEN ACommit([s EXCEPT !.app.generate_button = TRUE,
                            !.app.orphans = @ \/ s.app.current_audio_file,
                            !.app.current_audio_file = TRUE])
     ELSE ACommit(AFailed(s, "audio"))

\* the code that follows a dismissed dialog
AContinue(s, f) ==
  LET s1 == IF f.caller = "connect" THEN [s EXCEPT !.app.connect_button = TRUE]
            ELSE IF f.caller = "audio" THEN [s EXCEPT !.app.generate_button = TRUE]
            ELSE IF f.caller = "voices"
                 THEN [s EXCEPT !.app.refresh_button = (f.k = "reject" \/ s.app.api_key) \/ @]
            ELSE [s EXCEPT !.app.refresh_models_button =
                              (f.k = "reject" \/ s.app.api_key) \/ @]
  IN IF f.then = "get_models" THEN get_models(s1) ELSE s1

\* the user dismisses the innermost dialog
ADismiss ==
  /\ AInLoop
  /\ astack # <<>>
  /\ ACommit(AContinue(ACur(aq, APop), ATop))

\* closeEvent, after the thread has been dealt with: the file named by
\* self.current_audio_file is removed when it exists
closeEvent_remove(app) == [app EXCEPT !.current_audio_file = FALSE]

\* closeEvent from its start to worker.stop(); without a running thread it
\* goes straight to its end
closeEvent_stop ==
  /\ ACanClick
  /\ LET t == aapp.worker_thread IN
     IF t # 0 /\ athr[t].state = "running"
     THEN /\ aw' = [aw EXCEPT ![aapp.worker].is_running = FALSE]
          /\ aapp' = [aapp EXCEPT !.closing = "stopped", !.shut = <<"stop">>]
     ELSE /\ aapp' = closeEvent_remove([aapp EXCEPT !.closing = "closed"])
          /\ UNCHANGED aw
  /\ UNCHANGED <<aemit, ahist, aq, athr, astack, alast>>
  /\ UNCHANGED varsVideo
  /\ UNCHANGED varsImage

\* closeEvent: the disconnections and worker_thread.quit().  When the worker
\* has returned from run() its C++ object may already have been deleted by
\* the deleteLater it was given: the first disconnect raises RuntimeError and
\* the except clause skips the others.  started.disconnect() keeps run() from
\* being called unless QThread.started has already been emitted.
closeEvent_disconnect ==
  /\ ~aapp.crashed /\ aapp.closing = "stopped"
  /\ LET t == aapp.worker_thread
         w == aapp.worker
     IN \E deleted \in BOOLEAN, emitted \in BOOLEAN :
          /\ deleted => aw[w].pc = "done"
          /\ (deleted \/ aw[w].pc # "created") => emitted
          /\ athr' = [athr EXCEPT
                        ![t].quit = TRUE,
                        ![t].wired = IF deleted THEN @ ELSE FALSE,
                        ![t].fin_wired = IF deleted THEN @ ELSE FALSE,
                        ![t].run_enabled = IF deleted THEN @ ELSE emitted]
          /\ aapp' = [aapp EXCEPT
                        !.closing = "waiting",
                        !.shut = @ \o << IF deleted THEN "disconnect_raises"
                                         ELSE "disconnect", "quit" >>]
  /\ UNCHANGED <<aw, aemit, ahist, aq, astack, alast>>
  /\ UNCHANGED varsVideo
  /\ UNCHANGED varsImage

\* closeEvent: worker_thread.wait(3000) returns True, then the end of closeEvent
closeEvent_wait ==
  /\ ~aapp.crashed /\ aapp.closing = "waiting"
  /\ athr[aapp.worker_thread].state # "running"
  /\ aapp' = closeEvent_remove([aapp EXCEPT !.closing = "closed",
                                             !.shut = Append(@, "wait")])
  /\ UNCHANGED <<aw, aemit, ahist, aq, athr, astack, alast>>
  /\ UNCHANGED varsVideo
  /\ UNCHANGED varsImage

\* closeEvent: worker_thread.wait(3000) returns False with the thread still
\* running, then worker_thread.terminate().  The thread outlasts the three
\* seconds only inside run(), blocked in its HTTP request or its download.
closeEvent_terminate ==
  /\ ~aapp.crashed /\ aapp.closing = "waiting"
  /\ athr[aapp.worker_thread].state = "running"
  /\ aw[aapp.worker].pc \notin {"created", "done"}
  /\ aapp' = [aapp EXCEPT !.closing = "terminating",
                          !.shut = @ \o <<"wait", "terminate">>]
  /\ UNCHANGED <<aw, aemit, ahist, aq, athr, astack, alast>>
  /\ UNCHANGED varsVideo
  /\ UNCHANGED varsImage

\* closeEvent: worker_thread.wait(1000) returns, its result is not looked at,
\* then the end of closeEvent.  terminate() may or may not have ended the
\* thread by then; a thread it ended emits QThread.finished.
closeEvent_end ==
  /\ ~aapp.crashed /\ aapp.closing = "terminating"
  /\ LET t == aapp.worker_thread IN
     \E ended \in BOOLEAN :
       /\ ended => athr[t].state = "running"
       /\ IF ended
          THEN /\ athr' = [athr EXCEPT ![t].state = "finished"]
               /\ aw' = ADone(aapp.worker, [aw EXCEPT ![aapp.worker].pc = "done"])
               /\ IF athr[t].fin_wired
                  THEN /\ Len(aq) < MaxQueue + 3
                       /\ aq' = Append(aq, AEntry("clear", t, FALSE, FALSE))
                  ELSE UNCHANGED aq
          ELSE UNCHANGED <<athr, aw, aq>>
  /\ aapp' = closeEvent_remove([aapp EXCEPT !.closing = "closed",
                                             !.shut = Append(@, "wait")])
  /\ UNCHANGED <<aemit, ahist, astack, alast>>
  /\ UNCHANGED varsVideo
  /\ UNCHANGED varsImage

\* worker.deleteLater and the release of the Python objects: a worker whose
\* run() has returned, whose thread object is gone and none of whose signals
\* is pending.  A temp file it left stays on disk.
AReclaim(t) ==
  /\ aw[t].pc = "done"
  /\ athr[t].state = "none"
  /\ aapp.worker # t
  /\ \A i \in DOMAIN aq : aq[i].w # t
  /\ aw' = [aw EXCEPT ![t] = NoAWorker]
  /\ ahist' = [ahist EXCEPT ![t] = NoAHist]
  /\ aapp' = [aapp EXCEPT !.orphans = @ \/ aw[t].temp_file]
  /\ UNCHANGED <<aemit, aq, athr, astack, alast>>
  /\ UNCHANGED varsVideo
  /\ UNCHANGED varsImage

\* ---------------------------------------------- specification SpecAudioApp
InitAudioApp ==
  /\ aw = [w \in AIds |-> NoAWorker]
  /\ aemit = [w \in AIds |-> <<>>]
  /\ ahist = [w \in AIds |-> NoAHist]
  /\ AudioAppUnused
  /\ VideoUnused
  /\ ImageUnused

NextAudioApp ==
  \/ connect_button_clicked
  \/ refresh_button_clicked
  \/ refresh_models_button_clicked
  \/ generate_button_clicked
  \/ update_progress
  \/ AThreadQuit
  \/ clear_worker_references_delivered
  \/ on_connect_finished
  \/ on_get_voices_finished
  \/ on_get_models_finished
  \/ on_audio_generated
  \/ ADismiss
  \/ closeEvent_stop
  \/ closeEvent_disconnect
  \/ closeEvent_wait
  \/ closeEvent_terminate
  \/ closeEvent_end
  \/ \E t \in AIds : AThreadRun(t)
  \/ \E t \in AIds : AThreadExit(t)
  \/ \E t \in AIds : AReclaim(t)

SpecAudioApp == InitAudioApp /\ [][NextAudioApp]_vars

\* ------------------------------------------------------------ properties
VTerminals(w) == {i \in DOMAIN vemit[w] : VTerminal(vemit[w][i])}
VCount(w, sig) == Cardinality({i \in DOMAIN vemit[w] : vemit[w][i].sig = sig})

\* C4 (as claimed): every VideoTaskWorker whose run() has returned, stopped or
\* not, has emitted exactly one terminal signal (task_completed or
\* task_failed), and that signal is the last one it emitted.
C4_SingleTerminalOutcome ==
  \A w \in VIds :
    vw[w].pc = "done" =>
      /\ Cardinality(VTerminals(w)) = 1
      /\ VTerminal(vemit[w][Len(vemit[w])])

\* C6: with max_polls = N, no stop() call and a provider that never reports
\* 'completed' or 'failed', run() never issues more than N queries, emits the
\* timeout outcome only after N queries, and has emitted it (as its only
\* terminal signal) when it returns.
C6_PollingTermination ==
  \A w \in VIds :
    (~vhist[w].stopped /\ vhist[w].nonterminal = vhist[w].queries) =>
      /\ vhist[w].queries <= MaxPolls
      /\ VCount(w, "task_completed") = 0
      /\ (VCount(w, "task_failed") > 0 => vhist[w].queries = MaxPolls)
      /\ (vw[w].pc = "done" =>
            /\ vhist[w].queries = MaxPolls
            /\ VCount(w, "task_failed") = 1
            /\ vemit[w][Len(vemit[w])] = VSig(w, "task_failed", "timeout"))

C6_Witness ==
  /\ vw[1].pc = "done"
  /\ ~vhist[1].stopped
  /\ vhist[1].nonterminal = MaxPolls
  /\ vhist[1].queries = MaxPolls
  /\ vemit[1][Len(vemit[1])] = VSig(1, "task_failed", "timeout")

\* C7: when the provider reports non-terminal statuses for the first k
\* queries and 'completed' with a video_url on query k+1, the worker emits
\* task_completed with exactly that video_url once query k+1 is handled,
\* emits no task_failed, and the number of queries stays k+1.
C7_PollingCompletion ==
  \A w \in VIds :
    vhist[w].doneAt > 0 =>
      /\ vhist[w].doneAt = vhist[w].nonterminal + 1
      /\ vhist[w].queries = vhist[w].doneAt
      /\ VCount(w, "task_failed") = 0
      /\ VCount(w, "task_completed") = 1
      /\ vemit[w][Len(vemit[w])] = VSig(w, "task_completed", vhist[w].doneUrl)

C7_Witness ==
  /\ vw[1].pc = "done"
  /\ vhist[1].doneAt = 2
  /\ vhist[1].nonterminal = 1
  /\ vemit[1][Len(vemit[1])] = VSig(1, "task_completed", "u2")

VRunning(w) == vw[w].pc \notin {"none", "created", "done"}

\* C2 (as claimed): in the Video app at most one VideoTaskWorker thread is
\* running at any time, whatever the user does (verify key, generate, save)
\* and however the worker callbacks interleave.
C2_AtMostOnePollingThread ==
  Cardinality({w \in VIds : VRunning(w)}) <= 1

AFin(w) == {i \in DOMAIN aemit[w] : aemit[w][i].sig = "finished"}
AProg(w) == {i \in DOMAIN aemit[w] : aemit[w][i].sig = "progress"}

\* C3 (as claimed): every execution of ApiWorker.run and AudioGenerator.run
\* that has returned has emitted finished exactly once, and finished is the
\* last signal it emitted.
C3_FinishedExactlyOnce ==
  \A w \in AIds :
    aw[w].pc = "done" =>
      /\ Cardinality(AFin(w)) = 1
      /\ aemit[w][Len(aemit[w])].sig = "finished"

\* C5: when stop() is called on an ApiWorker or AudioGenerator before run()
\* begins, no HTTP request is made, no temp file is created, no byte is
\* written, and the only signal run() emits is one failed (cancelled) outcome.
C5_CancelBeforeEffect ==
  \A w \in AIds :
    ahist[w].stoppedFirst =>
      /\ ahist[w].http = 0
      /\ ~aw[w].temp_file
      /\ aw[w].total_size = 0
      /\ aw[w].pc \in {"created", "done"}
      /\ aemit[w] = IF aw[w].pc = "done"
                    THEN <<AFinished(w, FALSE, FALSE, "cancel_before")>> ELSE <<>>

C5_Witness ==
  /\ aw[1].cls = "AudioGenerator"
  /\ ahist[1].stoppedFirst
  /\ aw[1].pc = "done"
  /\ Len(aemit[1]) = 1

\* C8: an AudioGenerator download with status 200 whose stream ends with zero
\* bytes written emits exactly one signal, the failed outcome with the
\* empty-file error: no success outcome and no progress value (so no 100).
C8_EmptyStreamDetection ==
  \A w \in AIds :
    (aw[w].cls = "AudioGenerator" /\ ahist[w].ended /\ aw[w].total_size = 0) =>
      aemit[w] = <<AFinished(w, TRUE, FALSE, "empty")>>

C8_Witness ==
  /\ aw[1].cls = "AudioGenerator"
  /\ ahist[1].ended
  /\ aw[1].total_size = 0
  /\ aw[1].i = 2
  /\ aw[1].pc = "done"

\* C9 (as claimed): with a declared content length L > 0 every value emitted
\* on AudioGenerator.progress lies in [0,100], whatever chunks the stream
\* delivers.
C9_ProgressRange ==
  \A w \in AIds :
    aw[w].expected > 0 =>
      \A i \in AProg(w) : aemit[w][i].value >= 0 /\ aemit[w][i].value <= 100

\* C10 (as claimed): with a known content length the values emitted on
\* AudioGenerator.progress are non-decreasing, the forced final emission
\* included, and the signal emitted just before a success outcome is
\* progress 100.
C10_ProgressMonotone ==
  \A w \in AIds :
    aw[w].expected > 0 =>
      /\ \A i, j \in AProg(w) : i < j => aemit[w][i].value <= aemit[w][j].value
      /\ \A j \in AFin(w) :
           aemit[w][j].ok => (j > 1 /\ aemit[w][j - 1] = AProgress(w, 100))

\* C1: a call of _start_worker made while a previously started worker thread
\* is still running returns False, starts no new thread, and leaves
\* self.worker and self.worker_thread referring to the task in flight; so no
\* thread runs that the slot does not refer to.
C1_TaskRunnerExclusivity ==
  /\ alast.busy => (alast.ret = "False" /\ alast.started = 0 /\ alast.kept)
  /\ \A t \in AIds :
       athr[t].state = "running" => (aapp.worker_thread = t /\ aapp.worker = t)

C1_Witness ==
  /\ alast.busy /\ alast.ret = "False"
  /\ astack # <<>> /\ ATop.k = "reject" /\ ATop.caller = "audio"
  /\ aapp.worker_thread # 0
  /\ athr[aapp.worker_thread].state = "running"
  /\ athr[aapp.worker_thread].slot = "models"

\* C11 (as claimed): once stop() has cleared _is_running of a VideoTaskWorker,
\* at any point including the interval wait, no step of the worker issues a
\* further get_task_result query.
C11_NoQueryAfterStop ==
  [][\A w \in VIds : vhist[w].stopped => vhist'[w].queries = vhist[w].queries]_vars

AResultSlots == {"connect", "voices", "models", "audio"}

\* the result of task t has not reached its result callback yet
AUndelivered(t) ==
  \/ athr[t].state # "none" /\ aw[t].pc \notin {"none", "done"}
  \/ \E i \in DOMAIN aq : aq[i].w = t /\ aq[i].slot \in AResultSlots

\* C12 (as claimed): the result callback of a task has run before
\* _clear_worker_references clears the slot that holds the task (no step
\* resets self.worker_thread while the task it refers to has an undelivered
\* result, and a pending clear never precedes a pending result of the same
\* task), and until shutdown the controller never finds the runner idle
\* while a task's result is undelivered.
C12_ReleaseAfterResult ==
  /\ [][(aapp.worker_thread # 0 /\ aapp'.worker_thread = 0)
          => ~AUndelivered(aapp.worker_thread)]_vars
  /\ [](\A i, j \in DOMAIN aq :
          (aq[i].w = aq[j].w /\ aq[i].slot \in AResultSlots /\ aq[j].slot = "clear")
            => i < j)
  /\ [](aapp.closing = "no" =>
          \A t \in AIds :
            AUndelivered(t) => (aapp.worker_thread = t /\ athr[t].state = "running"))

\* C13 (as claimed): self.worker_thread is reset to None only by the
\* _clear_worker_references queued by the thread it refers to, and never while
\* that thread is still running.
C13_SlotOwnership ==
  [][(aapp.worker_thread # 0 /\ aapp'.worker_thread = 0)
       => /\ aq # <<>> /\ Head(aq).slot = "clear"
          /\ Head(aq).w = aapp.worker_thread
          /\ athr[aapp.worker_thread].state # "running"]_vars

IsPrefix(s, t) == Len(s) <= Len(t) /\ s = SubSeq(t, 1, Len(s))

\* C14 (as claimed): closeEvent with an active worker thread performs, in
\* this order, worker.stop(), the disconnection of the signals, thread.quit()
\* and a bounded wait; terminate() follows only a wait that expired with the
\* thread still running; and when closeEvent returns the worker thread is no
\* longer running.
C14_TwoPhaseShutdown ==
  /\ [](IsPrefix(aapp.shut,
                 <<"stop", "disconnect", "quit", "wait", "terminate", "wait">>))
  /\ [][(aapp.closing = "waiting" /\ aapp'.closing = "terminating")
          => athr[aapp.worker_thread].state = "running"]_vars
  /\ [][(aapp.closing # "closed" /\ aapp'.closing = "closed" /\ aapp'.shut # <<>>)
          => athr'[aapp.worker_thread].state # "running"]_vars

\* C15 (as claimed): once closeEvent has disconnected the signals of a task,
\* the GUI thread runs no result callback, no update_progress and no
\* _clear_worker_references for that task.
C15_NoCallbackAfterDisconnect ==
  [][~ /\ aq # <<>> /\ aq' = Tail(aq)
       /\ Head(aq).slot \in AResultSlots \cup {"progress", "clear"}
       /\ athr[Head(aq).w].state # "none"
       /\ ~athr[Head(aq).w].wired]_vars

\* C16 (as claimed): the GUI thread never executes a blocking operation (an
\* HTTP request, the chunked download) itself; only worker threads do.
C16_NoBlockingOnGuiThread ==
  vapp.gui_blocking = ""

\* C17: a worker on which stop() was called before its HTTP call returned
\* never emits a successful outcome, whatever the response is.
C17_StopBeforeResponse ==
  \A w \in AIds :
    ahist[w].stoppedEarly =>
      \A i \in DOMAIN aemit[w] : aemit[w][i].sig = "finished" => ~aemit[w][i].ok

\* stop() arrived while the worker was inside its HTTP call, and run() has
\* reported the cancellation after the call returned
C17_Witness ==
  \E w \in AIds :
    /\ ahist[w].stoppedEarly /\ ~ahist[w].stoppedFirst
    /\ ahist[w].http = 1
    /\ aw[w].pc = "done"
    /\ aemit[w] = <<AFinished(w, FALSE, FALSE, "cancel_during")>>

\* C18 (as claimed): an ApiWorker that received a response and was not
\* cancelled reports an HTTP-status failure exactly when the status is not
\* 2xx, and reports success for every 2xx status.
C18_HttpStatusMapping ==
  \A w \in AIds :
    (/\ aw[w].cls = "ApiWorker" /\ aw[w].pc = "done"
     /\ ahist[w].status_code # 0
     /\ aemit[w] # <<>>
     /\ aemit[w][1].msg \notin {"cancel_before", "cancel_during"})
    => LET is2xx == ahist[w].status_code \in 200..299 IN
       /\ (aemit[w][1].msg = "http") <=> ~is2xx
       /\ is2xx => aemit[w][1].ok

\* Each application is a program of its own: one of the two controllers runs,
\* the other stays as constructed.
InitApps == VideoUnused /\ AudioUnused /\ ImageUnused

NextApps ==
  \/ VideoUnused /\ NextAudioApp
  \/ AudioUnused /\ NextVideoApp

SpecApps == InitApps /\ [][NextApps]_vars

\* C19: the controller handles the notifications of a task in the order of
\* their emission with the terminal outcome last: no update_progress of a
\* task is pending behind its on_audio_generated or after it has run, and no
\* update_status_output of a task is pending behind its on_task_completed /
\* on_task_failed or after it has run; pending notifications are handled
\* from the head of the queue.
C19_TerminalHandledLast ==
  /\ [](\A i \in DOMAIN aq :
          aq[i].slot = "progress" =>
            /\ ~ahist[aq[i].w].terminal_handled
            /\ \A j \in 1..(i - 1) : ~(aq[j].w = aq[i].w /\ aq[j].slot = "audio"))
  /\ [](\A i \in DOMAIN vq :
          vq[i].sig = "task_status_updated" =>
            /\ ~vhist[vq[i].w].terminal_handled
            /\ \A j \in 1..(i - 1) : ~(vq[j].w = vq[i].w /\ VTerminal(vq[j])))
  /\ [][\A w \in AIds :
          (ahist'[w].progress_handled # ahist[w].progress_handled
             \/ ahist'[w].terminal_handled # ahist[w].terminal_handled)
          => (aq # <<>> /\ Head(aq).w = w) \/ aw'[w].pc = "none"]_vars
  /\ [][\A w \in VIds :
          (vhist'[w].status_handled # vhist[w].status_handled
             \/ vhist'[w].terminal_handled # vhist[w].terminal_handled)
          => (vq # <<>> /\ Head(vq).w = w) \/ vw'[w].pc = "none"]_vars

\* the controller has run update_progress and then on_audio_generated for an
\* AudioGenerator, and nothing of that task is left to handle
C19_Witness ==
  \E w \in AIds :
    /\ aw[w].cls = "AudioGenerator"
    /\ ahist[w].progress_handled /\ ahist[w].terminal_handled
    /\ \A i \in DOMAIN aq : aq[i].w = w => aq[i].slot \in {"quit", "clear"}

\* the workers of the three classes, each on its own
InitImageWorker ==
  /\ ithr = NewIThread /\ iemit = <<>>
  /\ iq = <<>> /\ iapp = NoIApp
  /\ VideoUnused
  /\ AudioUnused

NextImageWorker == IRunBegin \/ IRunComplete \/ IRunBlocked

InitWorkers == InitAudioWorker \/ InitVideoWorker \/ InitImageWorker

NextWorkers == NextAudioWorker \/ NextVideoWorker \/ NextImageWorker

SpecWorkers == InitWorkers /\ [][NextWorkers]_vars

\* C20: the running flag of a worker instance, once cleared, stays cleared
\* for as long as the instance exists; every stop() leaves the flag cleared,
\* and a stop() after the first leaves the worker as it was.
C20_CancellationMonotone ==
  /\ [][\A w \in AIds :
          (aw[w].pc # "none" /\ aw'[w].pc # "none" /\ ~aw[w].is_running)
          => ~aw'[w].is_running]_vars
  /\ [][\A w \in VIds :
          (vw[w].pc # "none" /\ vw'[w].pc # "none" /\ ~vw[w].is_running)
          => ~vw'[w].is_running]_vars
  /\ [][\A w \in AIds :
          ahist'[w].stops = ahist[w].stops + 1
          => /\ ~aw'[w].is_running
             /\ ahist[w].stops > 0 => aw'[w] = aw[w]]_vars
  /\ [][\A w \in VIds :
          vhist'[w].stops = vhist[w].stops + 1
          => /\ ~vw'[w].is_running
             /\ vhist[w].stops > 0 => vw'[w] = vw[w]]_vars

\* stop() has been called twice on a worker that is still inside its HTTP
\* call, and its flag is cleared
C20_Witness ==
  \E w \in AIds :
    /\ ahist[w].stops = 2
    /\ aw[w].pc = "request"
    /\ ~aw[w].is_running

\* C21: every status query of a VideoTaskWorker comes right after one
\* interval wait of its own (the waits are one ahead of the queries exactly
\* between time.sleep and get_task_result), and the number of queries issued
\* equals poll_count and never exceeds max_polls.
C21_PollingLoopShape ==
  /\ [](\A w \in VIds :
          ~vw[w].connected =>
            /\ vhist[w].queries = vw[w].poll_count
            /\ vw[w].poll_count \in 0..MaxPolls
            /\ vhist[w].waits = vhist[w].queries + (IF vw[w].pc = "query" THEN 1 ELSE 0))
  /\ [][\A w \in VIds :
          vhist'[w].queries # vhist[w].queries
          => /\ vhist'[w].queries = vhist[w].queries + 1
             /\ vhist[w].waits = vhist[w].queries + 1]_vars

\* a worker has waited and queried max_polls times and left the loop
C21_Witness ==
  \E w \in VIds :
    /\ ~vw[w].connected /\ vw[w].pc = "after"
    /\ vhist[w].queries = MaxPolls /\ vhist[w].waits = MaxPolls
    /\ vw[w].poll_count = MaxPolls

\* C22: a VideoTaskWorker that has entered run() and issued q queries has
\* emitted q + 1 task_status_updated, the first before any query, and every
\* terminal signal of an iteration comes right after the status notification
\* of that iteration.
C22_StatusPerQuery ==
  \A w \in VIds :
    (~vw[w].connected /\ vw[w].pc \notin {"none", "created", "started"}) =>
      /\ VCount(w, "task_status_updated") = vhist[w].queries + 1
      /\ vemit[w][1].sig = "task_status_updated"
      /\ \A i \in DOMAIN vemit[w] :
           (VTerminal(vemit[w][i]) /\ vemit[w][i].arg # "timeout")
           => (i > 1 /\ vemit[w][i - 1].sig = "task_status_updated")

\* run() has returned after two queries, the second of which ended the task
C22_Witness ==
  \E w \in VIds :
    /\ ~vw[w].connected /\ vw[w].pc = "done"
    /\ vhist[w].queries = 2
    /\ Len(vemit[w]) = 4
    /\ VTerminal(vemit[w][4])
    /\ VCount(w, "task_status_updated") = 3

\* C23: task_completed always carries a non-empty video_url, and a query
\* answered with status 'completed' but no video_url is the last query of the
\* worker: it is followed by one task_failed, the last signal of the worker,
\* and by no task_completed.
C23_CompletionRequiresUrl ==
  \A w \in VIds :
    /\ \A i \in DOMAIN vemit[w] :
         vemit[w][i].sig = "task_completed" => vemit[w][i].arg \in Urls
    /\ (~vw[w].connected /\ vhist[w].noUrlAt # 0) =>
         /\ vhist[w].queries = vhist[w].noUrlAt
         /\ VCount(w, "task_completed") = 0
         /\ VCount(w, "task_failed") = 1
         /\ vemit[w][Len(vemit[w])].sig = "task_failed"

\* the first query was answered 'completed' with a result that has no
\* video_url, and run() has returned with task_failed
C23_Witness ==
  \E w \in VIds :
    /\ ~vw[w].connected /\ vw[w].pc = "done"
    /\ vhist[w].noUrlAt = 1
    /\ vemit[w][Len(vemit[w])] = VSig(w, "task_failed", "nourl")

\* C24 (as claimed): the outcome a VideoTaskWorker emits when max_polls is
\* exhausted is of a kind other than task_failed, the kind that reports a
\* failure of the provider.
C24_TimedOutDistinct ==
  \A w \in VIds :
    \A i \in DOMAIN vemit[w] :
      vemit[w][i].arg = "timeout" => vemit[w][i].sig # "task_failed"

\* C25: a submission answered with status 200 and no task_id gives no task
\* id; the step of start_video_generation that receives it creates and
\* starts no VideoTaskWorker, leaves current_task_id as it was (unset when no
\* task was active) and leaves the input controls and the generate button
\* enabled.
C25_SubmissionWithoutId ==
  /\ [](\A h \in SubmitHttp :
          (h.kind = "resp" /\ h.code = 200 /\ h.task_id = "")
          => start_image_to_video_task("k1", "img", "p", h).task_id = "")
  /\ [][(VTopIs("pe_gen") /\ Len(vstack') < Len(vstack) /\ vapp'.no_task_id)
          => /\ vw' = vw
             /\ vapp'.video_task_worker = vapp.video_task_worker
             /\ vapp'.current_task_id = vapp.current_task_id
             /\ vapp'.generate_button /\ vapp'.inputs]_vars

\* start_video_generation has just received a 200 response without task_id:
\* no worker exists, no task id is set and the controls are enabled again
C25_Witness ==
  /\ vapp.no_task_id
  /\ vapp.gui_blocking = "start_image_to_video_task"
  /\ vstack = <<>>
  /\ \A w \in VIds : vw[w].pc = "none"
  /\ vapp.current_task_id = "" /\ vapp.video_task_worker = 0
  /\ vapp.generate_button /\ vapp.inputs

\* C26 (as claimed): for every response to the submission whose status is
\* not 200, whatever its body, start_image_to_video_task reports the failure
\* that carries the HTTP status code, never a connection error or an
\* unexpected error.
C26_SubmissionFailureClass ==
  (/\ vcall.fn = "start_image_to_video_task" /\ vcall.returned
   /\ vcall.api_key # "" /\ vcall.image_url # "" /\ vcall.prompt # ""
   /\ vcall.h.kind = "resp" /\ vcall.h.code # 200)
  => vcall.ret.msg = "http"

\* C27: the first query for which get_task_result returns 'failed' is the
\* last query of the worker; it is followed by exactly one task_failed, the
\* last signal the worker emits, and by no task_completed.
C27_NoRetryInPolling ==
  \A w \in VIds :
    (~vw[w].connected /\ vhist[w].failedAt # 0) =>
      /\ vhist[w].queries = vhist[w].failedAt
      /\ VCount(w, "task_failed") = 1
      /\ VCount(w, "task_completed") = 0
      /\ vemit[w][Len(vemit[w])].sig = "task_failed"

\* the second query failed on a transport error and run() has returned
C27_Witness ==
  \E w \in VIds :
    /\ ~vw[w].connected /\ vw[w].pc = "done"
    /\ vhist[w].failedAt = 2 /\ vhist[w].queries = 2
    /\ vemit[w][Len(vemit[w])] = VSig(w, "task_failed", "conn")

\* C28: no run() is left by an exception (position "raised"): whatever the
\* HTTP call delivers, a VideoTaskWorker whose query failed has emitted
\* task_failed, an ApiWorker or AudioGenerator that has returned has emitted
\* finished, with the success flag false when the request raised, and an
\* ImageGeneratorThread that has returned has emitted error_signal or
\* finished_signal last.
C28_NoEscapingException ==
  /\ \A w \in VIds :
       /\ vw[w].pc # "raised"
       /\ (~vw[w].connected /\ vw[w].pc = "done" /\ vhist[w].failedAt # 0)
          => VCount(w, "task_failed") >= 1
  /\ \A w \in AIds :
       /\ aw[w].pc # "raised"
       /\ (~aw[w].connected /\ aw[w].pc = "done") =>
            /\ \E i \in DOMAIN aemit[w] : aemit[w][i].sig = "finished"
            /\ (aw[w].cls = "ApiWorker" /\ ahist[w].http = 1 /\ ahist[w].status_code = 0)
               => \A i \in DOMAIN aemit[w] : ~aemit[w][i].ok
  /\ ithr.pc # "raised"
  /\ ithr.pc = "done" =>
       iemit[Len(iemit)].sig \in {"error_signal", "finished_signal"}

\* a query was answered with a body get_task_result could not read (not
\* JSON, a null task or a null result) and run() has returned after
\* reporting it with task_failed
C28_Witness ==
  \E w \in VIds :
    /\ ~vw[w].connected /\ vw[w].pc = "done"
    /\ vemit[w][Len(vemit[w])] = VSig(w, "task_failed", "unexpected")

\* C29 (as claimed): the outcome an AudioGenerator emits when it finds the
\* cancellation at a chunk boundary carries the path of the partial file
\* with the success flag false, is the only outcome of the worker, and is
\* followed by no other emission.
C29_MidStreamCancellation ==
  \A w \in AIds :
    \A i \in DOMAIN aemit[w] :
      aemit[w][i].msg = "cancel_download" =>
        /\ aemit[w][i].path /\ ~aemit[w][i].ok
        /\ i = Len(aemit[w])
        /\ \A j \in DOMAIN aemit[w] : aemit[w][j].sig = "finished" => j = i

\* C30 (as claimed): when the window of the Video app is closed, every
\* VideoTaskWorker that was active has been told to stop and its thread has
\* left run() by the time the application terminates.
C30_ShutdownStopsWorker ==
  [][(~vapp.closed /\ vapp'.closed)
       => \A w \in VIds :
            vw[w].pc \notin {"none", "created"}
            => (~vw'[w].is_running /\ vw'[w].pc = "done")]_vars

\* ------------------------------------------- specification SpecAudioStream
\* AudioGenerator.run inside its for loop, followed from a stream index up to
\* MaxIndex: the response was 200, the temp file is open, and the chunks
\* received so far (i0 of them) were all empty, so nothing has been written
\* or emitted yet.
InitAudioStream ==
  /\ \E i0 \in 0..MaxIndex, expected \in {-1, 0, MaxDeclared} :
       aw = [w \in AIds |->
               IF w = 1
               THEN [NewAWorker("AudioGenerator", "POST", FALSE) EXCEPT
                       !.pc = "stream", !.temp_file = TRUE,
                       !.expected = expected, !.i = i0]
               ELSE NoAWorker]
  /\ aemit = [w \in AIds |-> <<>>]
  /\ ahist = [w \in AIds |-> IF w = 1 THEN [NoAHist EXCEPT !.http = 1] ELSE NoAHist]
  /\ AudioAppUnused
  /\ VideoUnused
  /\ ImageUnused

NextAudioStream ==
  \/ /\ aw[1].i <= MaxIndex
     /\ Len(aemit[1]) < MaxBurst
     /\ GenChunkStep(1)
  \/ GenStreamEnd(1)

SpecAudioStream == InitAudioStream /\ [][NextAudioStream]_vars

\* the values of the cyclic estimator: 0, 5, ..., 95
EstimateRange == { 5 * k : k \in 0..19 }

\* C31: when the response declares no content length, the progress value
\* emitted for the non-empty chunk with stream index i is (5 * i) mod 100,
\* and every progress value emitted before the final forced 100 lies in
\* {0, 5, ..., 95}.
C31_UnknownLengthEstimator ==
  /\ [][(aw[1].pc = "stream" /\ aw[1].expected <= 0 /\ aw'[1].pc = "stream"
           /\ Len(aemit'[1]) = Len(aemit[1]) + 1)
          => LET e == aemit'[1][Len(aemit'[1])]
             IN  /\ e.sig = "progress"
                 /\ e.value = (5 * aw[1].i) % 100
                 /\ e.value \in EstimateRange
                 /\ aw'[1].i = aw[1].i + 1]_vars
  /\ [](aw[1].expected <= 0
          => \A k \in DOMAIN aemit[1] :
               (aemit[1][k].sig = "progress" /\ aemit[1][k].value \notin EstimateRange)
               => /\ aemit[1][k].value = 100
                  /\ k + 1 = Len(aemit[1])
                  /\ aemit[1][k + 1].sig = "finished" /\ aemit[1][k + 1].ok)

\* a stream without declared length whose chunks 20 and 21 were not empty:
\* the estimator has wrapped around to 0 and 5
C31_Witness ==
  /\ aw[1].pc = "stream" /\ aw[1].expected = -1
  /\ aw[1].i > 20
  /\ Len(aemit[1]) = 2
  /\ aemit[1][1].value = 0 /\ aemit[1][2].value = 5

\* C32 (as claimed): when on_connect_finished is delivered with success, both
\* get_voices and get_models obtain a worker from _start_worker: a thread
\* for the voice list and a thread for the model list are started.
C32_ConnectStartsBoth ==
  [][(AInLoop /\ aq # <<>> /\ Head(aq).slot = "connect" /\ Head(aq).ok
        /\ aq' = Tail(aq))
       => /\ \E t \in AIds : athr[t].state = "none" /\ athr'[t].state = "running"
                             /\ athr'[t].slot = "voices"
          /\ \E u \in AIds : athr[u].state = "none" /\ athr'[u].state = "running"
                             /\ athr'[u].slot = "models"]_vars

\* C33 (as claimed): the controller of the Video app never sets
\* self.video_task_worker to None, and never replaces it, while the thread
\* it refers to is still executing run().
C33_ReferenceKeptWhileRunning ==
  [][\A w \in VIds :
       (vapp.video_task_worker = w /\ vapp'.video_task_worker # w)
       => ~VRunning(w)]_vars

\* C34 (as claimed): whatever generations were made (successes, failures,
\* a cancellation at shutdown), when closeEvent returns no temp audio file
\* created by an AudioGenerator during the session is left on disk.
C34_NoTempFileLeft ==
  (~aapp.crashed /\ aapp.closing = "closed")
  => /\ ~aapp.current_audio_file
     /\ ~aapp.orphans
     /\ \A w \in AIds : ~aw[w].temp_file

\* -------------------------------------------- specification SpecVideoStop
\* SpecVideoWorker with the scheduling the worker relies on: the thread that
\* executes run() keeps being scheduled (time.sleep returns, the query of
\* get_task_result returns within its 15 s timeout), and QThread.wait()
\* returns once the thread is not running.
InitVideoStop == InitVideoWorker

NextVideoStop == NextVideoWorker

SpecVideoStop ==
  /\ InitVideoStop
  /\ [][NextVideoStop]_vars
  /\ WF_vars(VRunStep(1))
  /\ WF_vars(VStopReturn(1))

\* C35: after stop() is called on a running worker, the worker issues at
\* most one further status query, its run() terminates, and stop() returns
\* to its caller.
C35_StopTerminates ==
  /\ [](vhist[1].stopped => vhist[1].queries <= vhist[1].queriesAtStop + 1)
  /\ ((vstop[1] = "waiting" /\ VRunning(1)) ~> (vw[1].pc = "done"))
  /\ ((vstop[1] = "waiting") ~> (vstop[1] = "returned"))

\* stop() was called during the interval wait of a running worker, which
\* made one more query, left run() without a terminal answer from the
\* provider, and stop() has returned
C35_Witness ==
  /\ vstop[1] = "returned"
  /\ vw[1].pc = "done"
  /\ vhist[1].stops = 1
  /\ vhist[1].queries = vhist[1].queriesAtStop + 1
  /\ vhist[1].nonterminal = vhist[1].queries

\* C37: whenever get_task_result returns status 'completed' the result it
\* returns holds a non-empty video_url, so the branch of VideoTaskWorker.run
\* that emits task_failed for a completed task without a video URL is never
\* executed.
C37_FallbackUnreachable ==
  /\ \A h \in TaskHttp :
       LET r == get_task_result(vw[1].api_key, vw[1].task_id, h) IN
       (vw[1].pc # "none" /\ r.status = "completed") => r.url # ""
  /\ \A i \in DOMAIN vemit[1] : vemit[1][i] # VSig(1, "task_failed", "nourl2")

\* the provider answered 'completed' without a video_url: get_task_result
\* itself turned it into 'failed' and the worker reported that failure
C37_Witness ==
  /\ vw[1].pc = "done"
  /\ vhist[1].noUrlAt = 1
  /\ vhist[1].queries = 1
  /\ vemit[1][Len(vemit[1])] = VSig(1, "task_failed", "nourl")

\* ------------------------------------------------- MainWindow (Imagenes)
\* MainWindow.generate_image, called by a click on generate_button.  Without
\* an API key that starts with hf_ or without a prompt it shows a warning
\* and returns; otherwise it disables the inputs, creates the thread,
\* connects its four signals and starts it.
generate_image ==
  /\ iapp.ui /\ ~iapp.dialog
  /\ ithr.pc \in {"none", "done"}
  /\ iapp.generations < MaxGenerations
  /\ \E valid \in BOOLEAN :
       IF ~valid THEN /\ iapp' = [iapp EXCEPT !.dialog = TRUE]
                      /\ UNCHANGED ithr
       ELSE /\ ithr' = NewIThread
            /\ iapp' = [iapp EXCEPT !.thread = TRUE, !.ui = FALSE,
                                    !.generations = @ + 1,
                                    !.handled = <<>>, !.reenabled = 0]
  /\ UNCHANGED <<iemit, iq>>
  /\ UNCHANGED varsVideo
  /\ UNCHANGED varsAudio

\* update_status, delivered from the queue
update_status ==
  /\ iq # <<>> /\ Head(iq).sig = "progress_signal"
  /\ iq' = Tail(iq)
  /\ iapp' = [iapp EXCEPT !.handled = Append(@, "update_status")]
  /\ UNCHANGED <<ithr, iemit>>
  /\ UNCHANGED varsVideo
  /\ UNCHANGED varsAudio

\* process_image, delivered from the queue
process_image ==
  /\ iq # <<>> /\ Head(iq).sig = "result_signal"
  /\ iq' = Tail(iq)
  /\ iapp' = [iapp EXCEPT !.current_image = TRUE, !.save_button = TRUE,
                          !.handled = Append(@, "process_image")]
  /\ UNCHANGED <<ithr, iemit>>
  /\ UNCHANGED varsVideo
  /\ UNCHANGED varsAudio

\* generation_finished, delivered from the queue: toggle_ui(True)
generation_finished ==
  /\ iq # <<>> /\ Head(iq).sig = "finished_signal"
  /\ iq' = Tail(iq)
  /\ iapp' = [iapp EXCEPT !.ui = TRUE, !.reenabled = @ + 1,
                          !.handled = Append(@, "generation_finished")]
  /\ UNCHANGED <<ithr, iemit>>
  /\ UNCHANGED varsVideo
  /\ UNCHANGED varsAudio

\* show_error, delivered from the queue: toggle_ui(True), then the modal
\* QMessageBox.critical
show_error ==
  /\ iq # <<>> /\ Head(iq).sig = "error_signal"
  /\ iq' = Tail(iq)
  /\ iapp' = [iapp EXCEPT !.ui = TRUE, !.reenabled = @ + 1, !.dialog = TRUE,
                          !.handled = Append(@, "show_error")]
  /\ UNCHANGED <<ithr, iemit>>
  /\ UNCHANGED varsVideo
  /\ UNCHANGED varsAudio

\* MainWindow.clear_ui, called by a click on clear_button
clear_ui ==
  /\ iapp.ui /\ ~iapp.dialog
  /\ iapp' = [iapp EXCEPT !.current_image = FALSE, !.save_button = FALSE]
  /\ UNCHANGED <<ithr, iemit, iq>>
  /\ UNCHANGED varsVideo
  /\ UNCHANGED varsAudio

\* MainWindow.save_image, called by a click on save_button (toggle_ui leaves
\* that button alone): without image data it returns, otherwise it opens the
\* file dialog and the message box that follows
save_image ==
  /\ iapp.save_button /\ ~iapp.dialog
  /\ iapp' = [iapp EXCEPT !.dialog = iapp.current_image]
  /\ UNCHANGED <<ithr, iemit, iq>>
  /\ UNCHANGED varsVideo
  /\ UNCHANGED varsAudio

\* the user dismisses the dialog that is open
IDismiss ==
  /\ iapp.dialog
  /\ iapp' = [iapp EXCEPT !.dialog = FALSE]
  /\ UNCHANGED <<ithr, iemit, iq>>
  /\ UNCHANGED varsVideo
  /\ UNCHANGED varsAudio

\* ---------------------------------------------- specification SpecImageApp
\* The thread that executes run() keeps being scheduled and the GUI thread
\* keeps dispatching the slot invocations queued for it.
InitImageApp ==
  /\ ImageUnused
  /\ VideoUnused
  /\ AudioUnused

NextImageApp ==
  \/ generate_image
  \/ IRunBegin
  \/ IRunComplete
  \/ IRunBlocked
  \/ update_status
  \/ process_image
  \/ generation_finished
  \/ show_error
  \/ clear_ui
  \/ save_image
  \/ IDismiss

SpecImageApp ==
  /\ InitImageApp
  /\ [][NextImageApp]_vars
  /\ WF_vars(IRunBegin)
  /\ WF_vars(IRunComplete)
  /\ WF_vars(update_status)
  /\ WF_vars(process_image)
  /\ WF_vars(generation_finished)
  /\ WF_vars(show_error)

\* C36 (as claimed): every generate_image call that starts an
\* ImageGeneratorThread is eventually followed by exactly one re-enabling of
\* the UI, by generation_finished or by show_error, never both and never
\* neither, and on success process_image is handled before
\* generation_finished.
C36_OneReenabling ==
  /\ [](iapp.reenabled <= 1)
  /\ [](\A k \in DOMAIN iapp.handled :
          iapp.handled[k] = "generation_finished"
          => /\ k > 1 /\ iapp.handled[k - 1] = "process_image"
             /\ \A j \in DOMAIN iapp.handled : iapp.handled[j] # "show_error")
  /\ ((iapp.thread /\ ~iapp.ui) ~> (iapp.reenabled = 1))

====
